---------------------------- MODULE Spec2Model ----------------------------
(***************************************************************************)
(* Model of the Docker attribution and enforcement engine of a qman slave: *)
(* the attribution store (app/docker_quota/attribution_store.py), the      *)
(* usage aggregation (app/docker_quota/quota.py), the enforcement task     *)
(* (app/tasks/docker_quota_tasks.py), the attribution synchroniser         *)
(* (app/docker_quota/attribution_sync.py) and the beat schedule            *)
(* (app/celery_app.py).                                                    *)
(*                                                                         *)
(* Tables are partial functions from primary key to row: a key is in the   *)
(* DOMAIN exactly when the row exists.                                     *)
(***************************************************************************)
EXTENDS Integers, Sequences, FiniteSets, TLC

\* ------------------------------------------------------------------------
\* Universe of identifiers.
\* ------------------------------------------------------------------------

\* Python None in the nullable uid column.
NoUid == -1

\* Local users of the host: uid 1 has a passwd entry, uid 2 has none.
Uids == {1, 2}

Cids == {"c1", "c2"}

Layers == {"l1", "l2", "l3"}

\* pwd.getpwuid(uid).pw_name; "" stands for KeyError.
getpwuid(uid) == IF uid = 1 THEN "alice" ELSE ""

\* pwd.getpwnam(name).pw_uid; NoUid stands for KeyError.
getpwnam(name) == IF name = "alice" THEN 1 ELSE NoUid

\* The name the engine stores for a uid: pw_name, or user_<uid>.
user_name_of(uid) ==
    IF getpwuid(uid) # "" THEN getpwuid(uid)
    ELSE IF uid = 2 THEN "user_2" ELSE "user_x"

\* creation_method values; "null" is Python None.
Methods == {"pull", "commit", "null"}

\* Incremental layer sizes used as inputs.
LayerSizes == {1024, 2048}

VARIABLES
    \* --- attribution store (SQL tables) ---
    containerAttr,   \* docker_container_attribution: cid -> row
    layerAttr,       \* docker_layer_attribution: layer_id -> row
    quotaLimits,     \* docker_user_quota_limit: uid -> block_hard_limit
    imageAttr,       \* docker_image_attribution: image_id -> row
    settings,        \* settings: key -> value
    \* --- history of store calls (for first-writer-wins) ---
    layerFirst,      \* layer_id -> arguments of the first set call since the last delete
    layerLater,      \* layers that got a later set call with another owner
    \* --- Docker daemon ---
    dockerContainers, \* cid -> [state, size_rw, created, label, image] of the containers that exist
    dockerImages,    \* ids of the images that exist
    dockerEvents,    \* the daemon's event log, oldest first
    auditLog,        \* the records ausearch returns, in output order
    clock,           \* wall clock, in units of 120 s
    \* --- run_sync_docker_attribution: one task instance ---
    spc,             \* position of the pass
    sAttrs,          \* attributions: cid -> <<row>>, or <<>> for the {} put in by Phase 2
    sImgAttrs,       \* image_attributions: id -> <<row>>, or <<>> for {}
    sLayerSnap,      \* layer_attributions of Phase 3: the ids read at its start
    sList,           \* the list the current phase iterates over
    sIdx,            \* index of the current item
    sSizes,          \* container_sizes
    sImgSizes,       \* image_sizes
    sImages,         \* all_images of Phase 3
    sAudit,          \* audit_by_ts
    sNow,            \* now_ts of Phase 2
    sCount,          \* <<a, b, c>>: the counts of the three phases
    sResult,         \* the returned summary (a sequence of at most one)
    \* --- history of the passes ---
    sDispatched,     \* positions of the events some Phase 2 loop has iterated over
    \* --- Celery: beat, the qman.docker queue and the worker pool ---
    queue,           \* task messages on qman.docker, oldest first
    wTask,           \* pool process -> the task it runs, or "idle"
    wNow,            \* pool process -> now_ts its sync instance took (0: not yet)
    \* --- enforce_docker_quota: one task instance ---
    epc,             \* position of the pass
    eOrder,          \* DOCKER_QUOTA_ENFORCEMENT_ORDER
    eLimits,         \* limits: uid -> block_hard_limit, loaded at entry
    eUsage,          \* usage_by_uid computed at entry
    eConts,          \* uid_to_containers: uid -> sorted candidates
    eTodo,           \* uids the outer loop has not visited yet
    eUid,            \* uid of the current outer iteration
    eIdx,            \* index of the current candidate
    eEvents,         \* events accumulated by the pass
    eRemoved,        \* removed: ids removed for the current uid
    eTotal,          \* total_removed
    eResult,         \* the returned summary (a sequence of at most one)
    ePosted,         \* batches received by the coordinator
    \* --- history of the pass ---
    eOver,           \* uids over their limit when the pass started
    eCands0,         \* uid -> candidates when the pass started
    eFailed,         \* cid -> "stop" or "remove": the call that returned False
    ePre,            \* cid -> what Docker held for it before the attempt
    \* --- Redis cache of the Docker listings (cache.py) ---
    redisUp,         \* the Redis server answers
    cacheContainers, \* docker:containers:list: <<>> or <<[timestamp, containers]>>
    cacheImages,     \* docker:images:list: <<>> or <<[timestamp, images]>>
    sCacheInvalidated, \* cache_invalidated of sync_from_docker_events
    sInvCalls,       \* caches whose invalidate_* function the pass has called
    \* --- history of the listing calls ---
    lcCaller,        \* who made the last list_containers / list_images call
    lcHit,           \* whether it was answered from the cache
    lcResult,        \* what it returned
    lcLive,          \* what the daemon held when it was made
    lcUsable,        \* whether the cache held a fresh entry the call could reach
    \* --- one container of sync_containers_from_audit's matching loop ---
    mpc,             \* position: "idle", "loop", "done"
    mEvents,         \* audit_events as parse_audit_logs returned them
    mCreated,        \* created_ts of the container (0: missing or invalid)
    mPairs,          \* audit_by_ts
    mCounts,         \* set_count, containers_no_created_ts, containers_no_audit_match
    \* --- collect_events_since: one call ---
    kMaxSeconds,     \* max_seconds, in units of 5 s
    kMaxEvents,      \* max_events
    kpc,             \* caller: "idle", "wait", "join", "returned"
    kThread,         \* consumer thread: "none", "running", "exited"
    kDone,           \* the threading.Event done
    kElapsed,        \* seconds since the call, in units of 5 s
    kWaited,         \* time spent in t.join, in units of 5 s
    kPending,        \* events the daemon still has to deliver to the stream
    kClosed,         \* the stream has ended
    kOut,            \* out
    kReturned,       \* the returned list: <<>> or <<out>>
    \* --- concurrent upserts on the store (attribution_store.py) ---
    xTable,          \* rows of the database in insertion order
    xpc,             \* writer -> "idle", "queried", "returned", "raised"
    xCall,           \* writer -> the arguments of its call
    xSaw,            \* writer -> whether its SELECT found a row
    \* --- one usage report (quota.py) ---
    gIn,             \* the configuration the report is made for
    gOut,            \* <<>> or <<the report>>
    \* --- _reconcile_layer_attributions: the last call ---
    rcLive,          \* layers_from_docker of the last call
    rcBefore,        \* the layer table before it
    rcRet,           \* <<>> or <<its return value>>
    \* --- the Docker daemon ---
    dockerUp,        \* docker.from_env() and the API calls succeed
    \* --- the audit lists of Phase 1 and Phase 2 over the same records ---
    aRecs,           \* the records parse_audit_logs returned
    aP1,             \* <<>> or <<audit_by_ts of sync_containers_from_audit>>
    aP2,             \* <<>> or <<audit_by_ts of sync_from_docker_events>>
    \* --- one labelled container seen by the report and by Phase 1 ---
    lbIn,            \* the container: id, label, image, size
    lbQuota,         \* <<>> or <<the row the label back-fill writes>>
    lbSync           \* <<>> or <<the row Phase 1 writes>>

storeVars == <<containerAttr, layerAttr, quotaLimits, imageAttr, settings>>
histVars == <<layerFirst, layerLater>>
dockerVars == <<dockerContainers, dockerImages, dockerEvents, auditLog, clock>>
syncVars == <<spc, sAttrs, sImgAttrs, sLayerSnap, sList, sIdx, sSizes, sImgSizes,
              sImages, sAudit, sNow, sCount, sResult, sDispatched>>
enforceVars == <<epc, eOrder, eLimits, eUsage, eConts, eTodo, eUid, eIdx, eEvents,
                 eRemoved, eTotal, eResult, ePosted, eOver, eCands0, eFailed, ePre>>
schedVars == <<queue, wTask, wNow>>
cacheVars == <<redisUp, cacheContainers, cacheImages, sCacheInvalidated, sInvCalls,
               lcCaller, lcHit, lcResult, lcLive, lcUsable>>
matchVars == <<mpc, mEvents, mCreated, mPairs, mCounts>>
collectVars == <<kMaxSeconds, kMaxEvents, kpc, kThread, kDone, kElapsed, kWaited, kPending, kClosed, kOut, kReturned>>
concVars == <<xTable, xpc, xCall, xSaw>>
reportVars == <<gIn, gOut>>
reconVars == <<rcLive, rcBefore, rcRet>>
daemonVars == <<dockerUp>>
auditVars == <<aRecs, aP1, aP2>>
labelVars == <<lbIn, lbQuota, lbSync>>
vars == <<storeVars, histVars, dockerVars, enforceVars, syncVars, schedVars,
          cacheVars, matchVars, collectVars,
        concVars, reportVars, reconVars, daemonVars, auditVars, labelVars>>
\* Everything but the store and its call history.
nonStoreVars == <<dockerVars, enforceVars, syncVars, schedVars,
                  cacheVars, matchVars, collectVars,
        concVars, reportVars, reconVars, daemonVars, auditVars, labelVars>>

\* ------------------------------------------------------------------------
\* Attribution store.
\* ------------------------------------------------------------------------

EmptyTable == [k \in {} |-> 0]

\* Table t without key k.
Without(t, k) == [x \in (DOMAIN t) \ {k} |-> t[x]]

\* Table t with key k set to row r.
With(t, k, r) == [x \in (DOMAIN t) \cup {k} |-> IF x = k THEN r ELSE t[x]]

LayerRow(name, uid, size, method) ==
    [first_puller_host_user_name |-> name, first_puller_uid |-> uid,
     size_bytes |-> size, creation_method |-> method]

\* Mutant: an upsert that overwrites the existing row.
layer_table_after_set_overwrite(t, l, name, uid, size, method) ==
    With(t, l, LayerRow(name, uid, size, method))

\* The table after set_layer_attribution: an existing row is kept as it is.
layer_table_after_set(t, l, name, uid, size, method) ==
    IF l \in DOMAIN t THEN t
    ELSE With(t, l, LayerRow(name, uid, size, method))

\* get_layer_attributions(): the rows as dictionaries.
get_layer_attributions ==
    {[layer_id |-> l,
      first_puller_uid |-> layerAttr[l].first_puller_uid,
      first_puller_host_user_name |-> layerAttr[l].first_puller_host_user_name,
      size_bytes |-> layerAttr[l].size_bytes,
      creation_method |-> layerAttr[l].creation_method] : l \in DOMAIN layerAttr}

set_layer_attribution(l, name, uid, size, method) ==
    /\ layerAttr' = layer_table_after_set(layerAttr, l, name, uid, size, method)
    /\ layerFirst' = IF l \in DOMAIN layerFirst THEN layerFirst
                     ELSE With(layerFirst, l, LayerRow(name, uid, size, method))
    /\ layerLater' = IF l \in DOMAIN layerFirst /\ layerFirst[l].first_puller_uid # uid
                     THEN layerLater \cup {l} ELSE layerLater
    /\ UNCHANGED <<containerAttr, quotaLimits, imageAttr, settings, nonStoreVars>>

delete_layer_attribution(l) ==
    /\ layerAttr' = Without(layerAttr, l)
    /\ layerFirst' = Without(layerFirst, l)
    /\ layerLater' = layerLater \ {l}
    /\ UNCHANGED <<containerAttr, quotaLimits, imageAttr, settings, nonStoreVars>>

\* ------------------------------------------------------------------------
\* Docker daemon and usage aggregation.
\* ------------------------------------------------------------------------

\* The order in which a query without ORDER BY returns the container rows
\* (primary-key order).
CidOrder == <<"c1", "c2">>

RECURSIVE SumOver(_, _)
\* Sum of f[x] over the finite set S.
SumOver(S, f) ==
    IF S = {} THEN 0
    ELSE LET x == CHOOSE y \in S : TRUE IN f[x] + SumOver(S \ {x}, f)

\* get_system_df()["containers"]: SizeRw of every container that exists.
get_system_df_containers ==
    IF dockerUp THEN [c \in DOMAIN dockerContainers |-> dockerContainers[c].size_rw]
    ELSE EmptyTable

\* name_to_uid of _aggregate_usage_by_uid: the uid of the first row (in query
\* order) with that name and a uid, else pwd.getpwnam; NoUid when neither.
name_to_uid(attrs, name) ==
    LET idx == {i \in 1..Len(CidOrder) :
                  /\ CidOrder[i] \in DOMAIN attrs
                  /\ attrs[CidOrder[i]].host_user_name = name
                  /\ attrs[CidOrder[i]].uid # NoUid}
    IN IF idx # {}
       THEN attrs[CidOrder[CHOOSE i \in idx : \A j \in idx : i <= j]].uid
       ELSE getpwnam(name)

\* Mutant: only the stored uid counts, no lookup by name.
aggregate_owner_stored_uid_only(attrs, c) ==
    IF c \notin DOMAIN attrs THEN NoUid ELSE attrs[c].uid

\* The uid whose bucket _aggregate_usage_by_uid adds a container's size to.
aggregate_owner(attrs, c) ==
    IF c \notin DOMAIN attrs THEN NoUid
    ELSE IF attrs[c].uid # NoUid THEN attrs[c].uid
    ELSE name_to_uid(attrs, attrs[c].host_user_name)

\* usage_by_uid of _aggregate_usage_by_uid(None, None): live writable-layer
\* sizes of the attributed containers plus the sizes of the attributed layers.
aggregate_usage_by_uid(attrs, layers, sizes) ==
    [u \in Uids |->
        SumOver({c \in DOMAIN sizes : aggregate_owner(attrs, c) = u}, sizes)
      + SumOver({l \in DOMAIN layers : layers[l].first_puller_uid = u},
                [l \in DOMAIN layers |-> layers[l].size_bytes])]

\* The usage of uid u as the code would compute it in the current state.
CurrentUsage(u) ==
    aggregate_usage_by_uid(containerAttr, layerAttr, get_system_df_containers)[u]

\* No image, no event, no audit record; the clock starts at 1 (a timestamp
\* of 0 stands for a missing one).
DockerQuiet ==
    /\ dockerImages = {}
    /\ dockerEvents = <<>>
    /\ auditLog = <<>>
    /\ clock = 1

\* The pool processes of the worker.
Workers == {"w1", "w2"}

\* Nothing queued, every pool process free.
SchedIdle ==
    /\ queue = <<>>
    /\ wTask = [w \in Workers |-> "idle"]
    /\ wNow = [w \in Workers |-> 0]

\* The synchroniser before it is started.
SyncIdle ==
    /\ spc = "idle"
    /\ sAttrs = EmptyTable
    /\ sImgAttrs = EmptyTable
    /\ sLayerSnap = {}
    /\ sList = <<>>
    /\ sIdx = 0
    /\ sSizes = EmptyTable
    /\ sImgSizes = EmptyTable
    /\ sImages = {}
    /\ sAudit = <<>>
    /\ sNow = 0
    /\ sCount = <<0, 0, 0>>
    /\ sResult = <<>>
    /\ sDispatched = {}

\* The task instance before it is started.
EnforceIdle ==
    /\ epc = "idle"
    /\ eLimits = EmptyTable
    /\ eUsage = [u \in Uids |-> 0]
    /\ eConts = [u \in Uids |-> <<>>]
    /\ eTodo = {}
    /\ eUid = NoUid
    /\ eIdx = 0
    /\ eEvents = <<>>
    /\ eRemoved = <<>>
    /\ eTotal = 0
    /\ eResult = <<>>
    /\ ePosted = <<>>
    /\ eOver = {}
    /\ eCands0 = [u \in Uids |-> {}]
    /\ eFailed = EmptyTable
    /\ ePre = EmptyTable

\* No listing has been cached and none has been requested.
CacheIdle ==
    /\ redisUp = TRUE
    /\ cacheContainers = <<>>
    /\ cacheImages = <<>>
    /\ sCacheInvalidated = FALSE
    /\ sInvCalls = {}
    /\ lcCaller = "none"
    /\ lcHit = FALSE
    /\ lcResult = <<>>
    /\ lcLive = <<>>
    /\ lcUsable = FALSE

MatchIdle ==
    /\ mpc = "idle"
    /\ mEvents = <<>>
    /\ mCreated = 0
    /\ mPairs = <<>>
    /\ mCounts = [set_count |-> 0, no_created_ts |-> 0, no_audit_match |-> 0]

XWriters == {"w1", "w2"}

ConcIdle ==
    /\ xTable = <<>>
    /\ xpc = [w \in XWriters |-> "idle"]
    /\ xCall = [w \in XWriters |-> <<>>]
    /\ xSaw = [w \in XWriters |-> FALSE]

ReportIdle ==
    /\ gIn = <<>>
    /\ gOut = <<>>

ReconIdle ==
    /\ rcLive = {}
    /\ rcBefore = <<>>
    /\ rcRet = <<>>

DaemonIdle == dockerUp = TRUE

AuditIdle == aRecs = <<>> /\ aP1 = <<>> /\ aP2 = <<>>

LabelIdle == lbIn = <<>> /\ lbQuota = <<>> /\ lbSync = <<>>

CollectIdle ==
    /\ kMaxSeconds = 0
    /\ kMaxEvents = 0
    /\ kpc = "idle"
    /\ kThread = "none"
    /\ kDone = FALSE
    /\ kElapsed = 0
    /\ kWaited = 0
    /\ kPending = 0
    /\ kClosed = FALSE
    /\ kOut = <<>>
    /\ kReturned = <<>>

\* ------------------------------------------------------------------------
\* Enforcement task: enforce_docker_quota.
\* ------------------------------------------------------------------------

Orders == {"newest_first", "oldest_first", "largest_first"}

\* The uid _containers_by_uid_with_created files a row under; NoUid: skipped.
enforce_owner(row) ==
    IF row.uid # NoUid THEN row.uid ELSE getpwnam(row.host_user_name)

\* Mutant: newest_first sorted by creation time ascending.
sort_key_ascending(order, t) ==
    IF order = "largest_first" THEN 0 - t.size ELSE t.created

\* The key list.sort() uses for an order.
sort_key(order, t) ==
    IF order = "newest_first" THEN 0 - t.created
    ELSE IF order = "oldest_first" THEN t.created
    ELSE 0 - t.size

RECURSIVE insert_sorted(_, _, _)
\* x placed after every element whose key is not greater (a stable sort).
insert_sorted(order, x, s) ==
    IF s = <<>> THEN <<x>>
    ELSE IF sort_key(order, x) < sort_key(order, Head(s))
         THEN <<x>> \o s
         ELSE <<Head(s)>> \o insert_sorted(order, x, Tail(s))

RECURSIVE stable_sort(_, _)
stable_sort(order, s) ==
    IF s = <<>> THEN <<>>
    ELSE insert_sorted(order, s[Len(s)], stable_sort(order, SubSeq(s, 1, Len(s) - 1)))

RECURSIVE candidates_of(_, _, _)
\* The (cid, size, created) tuples of uid u, in query order from position i.
candidates_of(attrs, u, i) ==
    IF i > Len(CidOrder) THEN <<>>
    ELSE LET c == CidOrder[i] IN
         (IF c \in DOMAIN attrs /\ enforce_owner(attrs[c]) = u
          THEN <<[cid |-> c,
                  size |-> IF c \in DOMAIN dockerContainers
                           THEN dockerContainers[c].size_rw ELSE 0,
                  created |-> IF c \in DOMAIN dockerContainers
                              THEN dockerContainers[c].created ELSE 0]>>
          ELSE <<>>) \o candidates_of(attrs, u, i + 1)

\* _containers_by_uid_with_created(order).
containers_by_uid_with_created(order) ==
    [u \in Uids |-> stable_sort(order, candidates_of(containerAttr, u, 1))]

\* get_all_user_quota_limits(): the rows with block_hard_limit > 0.
get_all_user_quota_limits ==
    [u \in {x \in DOMAIN quotaLimits : quotaLimits[x] > 0} |-> quotaLimits[u]]

\* Mutant: the limit compared in blocks, not in bytes.
within_limit_in_blocks(used, limit_1k) == used <= limit_1k

\* total_used <= limit_bytes with limit_bytes = limit_1k * 1024.
within_limit(used, limit_1k) == used <= limit_1k * 1024

Event(type, name, uid, cid, size, usage, limit) ==
    [event_type |-> type, host_user_name |-> name, uid |-> uid, container_id |-> cid,
     size_bytes |-> size, usage |-> usage, block_hard_limit |-> limit, removed_ids |-> <<>>]

\* events[-1]["detail"]["removed_ids"] = removed, when removed is not empty.
with_removed_ids(events, removed) ==
    IF removed = <<>> \/ events = <<>> THEN events
    ELSE [events EXCEPT ![Len(events)].removed_ids = removed]

eCur == eConts[eUid][eIdx]

\* An exception leaves the task: nothing after the raising call runs.
EnforceRaise ==
    /\ epc' = "aborted"
    /\ UNCHANGED <<eOrder, eLimits, eUsage, eConts, eTodo, eUid, eIdx, eEvents,
                   eRemoved, eTotal, eResult, ePosted, eFailed, ePre>>

\* Lines 109-118: configuration, limits, usage and candidates.
EnforceStart ==
    /\ epc = "idle"
    /\ eOver' = {u \in Uids : quotaLimits[u] > 0
                              /\ ~within_limit(CurrentUsage(u), quotaLimits[u])}
    /\ eCands0' = [u \in Uids |->
                     {c \in DOMAIN containerAttr : enforce_owner(containerAttr[c]) = u}]
    /\ \/ \* a store read raises
          /\ EnforceRaise
       \/ /\ get_all_user_quota_limits = EmptyTable
          /\ epc' = "done"
          /\ eResult' = <<[enforced |-> 0, events |-> 0]>>
          /\ UNCHANGED <<eOrder, eLimits, eUsage, eConts, eTodo, eUid, eIdx, eEvents,
                         eRemoved, eTotal, ePosted, eFailed, ePre>>
       \/ /\ get_all_user_quota_limits # EmptyTable
          /\ eLimits' = get_all_user_quota_limits
          /\ eUsage' = aggregate_usage_by_uid(containerAttr, layerAttr,
                                              get_system_df_containers)
          /\ eConts' = containers_by_uid_with_created(eOrder)
          /\ eTodo' = DOMAIN get_all_user_quota_limits
          /\ epc' = "uids"
          /\ UNCHANGED <<eOrder, eUid, eIdx, eEvents, eRemoved, eTotal, eResult,
                         ePosted, eFailed, ePre>>
    /\ UNCHANGED <<storeVars, histVars, dockerVars, syncVars, schedVars,
                 cacheVars, matchVars, collectVars,
        concVars, reportVars, reconVars, daemonVars, auditVars, labelVars>>

\* Lines 119-138: the next uid of the outer loop.
EnforceNextUid ==
    /\ epc = "uids"
    /\ \/ /\ eTodo = {}
          /\ epc' = "post"
          /\ UNCHANGED <<eTodo, eUid, eIdx, eEvents, eRemoved>>
       \/ \E u \in eTodo :
            /\ eTodo' = eTodo \ {u}
            /\ IF eLimits[u] <= 0 \/ within_limit(eUsage[u], eLimits[u])
               THEN /\ epc' = "uids"
                    /\ UNCHANGED <<eUid, eIdx, eEvents, eRemoved>>
               ELSE /\ eEvents' = Append(eEvents,
                           Event("quota_exceeded", user_name_of(u), u, "", 0,
                                 eUsage[u], eLimits[u]))
                    /\ eUid' = u
                    /\ eIdx' = 1
                    /\ eRemoved' = <<>>
                    /\ epc' = "cand"
    /\ UNCHANGED <<eOrder, eLimits, eUsage, eConts, eTotal, eResult, ePosted,
                   eOver, eCands0, eFailed, ePre>>
    /\ UNCHANGED <<storeVars, histVars, dockerVars, syncVars, schedVars,
                 cacheVars, matchVars, collectVars,
        concVars, reportVars, reconVars, daemonVars, auditVars, labelVars>>

\* Lines 139-144 and 166-167: the head of the inner loop.
EnforceRecompute ==
    /\ epc = "cand"
    /\ \/ /\ eIdx > Len(eConts[eUid])
          /\ eEvents' = with_removed_ids(eEvents, eRemoved)
          /\ epc' = "uids"
          /\ UNCHANGED <<ePre>>
       \/ /\ eIdx <= Len(eConts[eUid])
          /\ \/ \* _aggregate_usage_by_uid raises on a store read
                /\ epc' = "aborted"
                /\ UNCHANGED <<eEvents, ePre>>
             \/ /\ within_limit(CurrentUsage(eUid), eLimits[eUid])
                /\ eEvents' = with_removed_ids(eEvents, eRemoved)
                /\ epc' = "uids"
                /\ UNCHANGED <<ePre>>
             \/ /\ ~within_limit(CurrentUsage(eUid), eLimits[eUid])
                /\ epc' = "stop"
                /\ ePre' = With(ePre, eCur.cid,
                                IF eCur.cid \in DOMAIN dockerContainers
                                THEN <<dockerContainers[eCur.cid]>> ELSE <<>>)
                /\ UNCHANGED <<eEvents>>
    /\ UNCHANGED <<eOrder, eLimits, eUsage, eConts, eTodo, eUid, eIdx, eRemoved,
                   eTotal, eResult, ePosted, eOver, eCands0, eFailed>>
    /\ UNCHANGED <<storeVars, histVars, dockerVars, syncVars, schedVars,
                 cacheVars, matchVars, collectVars,
        concVars, reportVars, reconVars, daemonVars, auditVars, labelVars>>

\* Mutant: the False returned by stop_container / remove_container is ignored
\* and the steps after the call run as if it had succeeded.
EnforceCallFailedIgnored(call) ==
    /\ eFailed' = With(eFailed, eCur.cid, call)
    /\ eIdx' = eIdx
    /\ epc' = IF call = "stop" THEN "remove" ELSE "delete"
    /\ UNCHANGED dockerVars

\* The inner loop goes on to the next candidate after a failed call.
EnforceCallFailed(call) ==
    /\ eFailed' = With(eFailed, eCur.cid, call)
    /\ eIdx' = eIdx + 1
    /\ epc' = "cand"
    /\ UNCHANGED dockerVars

\* Line 149: stop_container(cid).
EnforceStop ==
    /\ epc = "stop"
    /\ \/ \* containers.get or stop raised: False
          EnforceCallFailed("stop")
       \/ /\ eCur.cid \in DOMAIN dockerContainers
          /\ dockerContainers' = [dockerContainers EXCEPT ![eCur.cid].state = "exited"]
          /\ UNCHANGED <<dockerImages, dockerEvents, auditLog, clock>>
          /\ epc' = "remove"
          /\ UNCHANGED <<eFailed, eIdx>>
    /\ UNCHANGED <<eOrder, eLimits, eUsage, eConts, eTodo, eUid, eEvents, eRemoved,
                   eTotal, eResult, ePosted, eOver, eCands0, ePre>>
    /\ UNCHANGED <<storeVars, histVars, syncVars, schedVars,
                 cacheVars, matchVars, collectVars,
        concVars, reportVars, reconVars, daemonVars, auditVars, labelVars>>

\* Mutant: the result of remove_container is not tested; the attribution is
\* deleted whether or not the container is gone.
EnforceRemoveUnchecked ==
    /\ epc = "remove"
    /\ \/ UNCHANGED dockerVars
       \/ /\ eCur.cid \in DOMAIN dockerContainers
          /\ dockerContainers' = Without(dockerContainers, eCur.cid)
          /\ UNCHANGED <<dockerImages, dockerEvents, auditLog, clock>>
    /\ epc' = "delete"
    /\ UNCHANGED <<eFailed, eIdx>>
    /\ UNCHANGED <<eOrder, eLimits, eUsage, eConts, eTodo, eUid, eEvents, eRemoved,
                   eTotal, eResult, ePosted, eOver, eCands0, ePre>>
    /\ UNCHANGED <<storeVars, histVars, syncVars, schedVars,
                 cacheVars, matchVars, collectVars,
        concVars, reportVars, reconVars, daemonVars, auditVars, labelVars>>

\* Line 150: remove_container(cid, force=True).
EnforceRemove ==
    /\ epc = "remove"
    /\ \/ EnforceCallFailed("remove")
       \/ /\ eCur.cid \in DOMAIN dockerContainers
          /\ dockerContainers' = Without(dockerContainers, eCur.cid)
          /\ UNCHANGED <<dockerImages, dockerEvents, auditLog, clock>>
          /\ epc' = "delete"
          /\ UNCHANGED <<eFailed, eIdx>>
    /\ UNCHANGED <<eOrder, eLimits, eUsage, eConts, eTodo, eUid, eEvents, eRemoved,
                   eTotal, eResult, ePosted, eOver, eCands0, ePre>>
    /\ UNCHANGED <<storeVars, histVars, syncVars, schedVars,
                 cacheVars, matchVars, collectVars,
        concVars, reportVars, reconVars, daemonVars, auditVars, labelVars>>

\* Line 151: delete_container_attribution(cid); a failed commit is re-raised.
EnforceDeleteAttribution ==
    /\ epc = "delete"
    /\ \/ /\ epc' = "aborted"
          /\ UNCHANGED storeVars
       \/ /\ containerAttr' = Without(containerAttr, eCur.cid)
          /\ epc' = "emit"
          /\ UNCHANGED <<layerAttr, quotaLimits, imageAttr, settings>>
    /\ UNCHANGED <<eOrder, eLimits, eUsage, eConts, eTodo, eUid, eIdx, eEvents,
                   eRemoved, eTotal, eResult, ePosted, eOver, eCands0, eFailed, ePre>>
    /\ UNCHANGED <<histVars, dockerVars, syncVars, schedVars,
                 cacheVars, matchVars, collectVars,
        concVars, reportVars, reconVars, daemonVars, auditVars, labelVars>>

\* Mutant: the removal is reported but not counted.
EnforceEmitRemovedUncounted ==
    /\ epc = "emit"
    /\ eTotal' = eTotal
    /\ eRemoved' = Append(eRemoved, eCur.cid)
    /\ eEvents' = Append(eEvents,
           Event("container_removed", eEvents[Len(eEvents)].host_user_name,
                 eUid, eCur.cid, eCur.size, CurrentUsage(eUid), eLimits[eUid]))
    /\ eIdx' = eIdx + 1
    /\ epc' = "cand"
    /\ UNCHANGED <<eOrder, eLimits, eUsage, eConts, eTodo, eUid, eResult, ePosted,
                   eOver, eCands0, eFailed, ePre>>
    /\ UNCHANGED <<storeVars, histVars, dockerVars, syncVars, schedVars,
                 cacheVars, matchVars, collectVars,
        concVars, reportVars, reconVars, daemonVars, auditVars, labelVars>>

\* Lines 153-161: usage after the removal and the container_removed event.
EnforceEmitRemoved ==
    /\ epc = "emit"
    /\ \/ /\ epc' = "aborted"
          /\ UNCHANGED <<eTotal, eRemoved, eEvents, eIdx>>
       \/ /\ eTotal' = eTotal + 1
          /\ eRemoved' = Append(eRemoved, eCur.cid)
          /\ eEvents' = Append(eEvents,
                 Event("container_removed", eEvents[Len(eEvents)].host_user_name,
                       eUid, eCur.cid, eCur.size, CurrentUsage(eUid), eLimits[eUid]))
          /\ eIdx' = eIdx + 1
          /\ epc' = "cand"
    /\ UNCHANGED <<eOrder, eLimits, eUsage, eConts, eTodo, eUid, eResult, ePosted,
                   eOver, eCands0, eFailed, ePre>>
    /\ UNCHANGED <<storeVars, histVars, dockerVars, syncVars, schedVars,
                 cacheVars, matchVars, collectVars,
        concVars, reportVars, reconVars, daemonVars, auditVars, labelVars>>

\* Lines 168-170: the batch is POSTed (a failed POST is logged) and the
\* summary returned.
EnforcePost ==
    /\ epc = "post"
    /\ \/ /\ eEvents # <<>>
          /\ ePosted' = Append(ePosted, eEvents)
       \/ UNCHANGED ePosted
    /\ eResult' = <<[enforced |-> eTotal, events |-> Len(eEvents)]>>
    /\ epc' = "done"
    /\ UNCHANGED <<eOrder, eLimits, eUsage, eConts, eTodo, eUid, eIdx, eEvents,
                   eRemoved, eTotal, eOver, eCands0, eFailed, ePre>>
    /\ UNCHANGED <<storeVars, histVars, dockerVars, syncVars, schedVars,
                 cacheVars, matchVars, collectVars,
        concVars, reportVars, reconVars, daemonVars, auditVars, labelVars>>

\* The task instance ends; the next beat tick starts a fresh one.
EnforceFinish ==
    /\ epc \in {"done", "aborted"}
    /\ epc' = "idle"
    /\ eLimits' = EmptyTable
    /\ eUsage' = [u \in Uids |-> 0]
    /\ eConts' = [u \in Uids |-> <<>>]
    /\ eTodo' = {}
    /\ eUid' = NoUid
    /\ eIdx' = 0
    /\ eEvents' = <<>>
    /\ eRemoved' = <<>>
    /\ eTotal' = 0
    /\ eResult' = <<>>
    /\ ePosted' = <<>>
    /\ eOver' = {}
    /\ eCands0' = [u \in Uids |-> {}]
    /\ eFailed' = EmptyTable
    /\ ePre' = EmptyTable
    /\ UNCHANGED <<eOrder, storeVars, histVars, dockerVars, syncVars, schedVars,
                 cacheVars, matchVars, collectVars,
        concVars, reportVars, reconVars, daemonVars, auditVars, labelVars>>

\* ------------------------------------------------------------------------
\* SpecEnforce: enforcement passes over every small configuration of
\* containers, attribution rows, layer rows, limits and order.
\* ------------------------------------------------------------------------

\* Largest block_hard_limit (in 1K blocks) given to a user.
MaxLimit == 2

ContainerSizes == {1024, 2048}

\* Creation times of the containers (Unix seconds).
CreatedOf(c) == IF c = "c1" THEN 10 ELSE 20

ContainerRow(name, uid, image, size) ==
    [host_user_name |-> name, uid |-> uid, image_id |-> image, size_bytes |-> size]

\* Owners the engine writes: from a uid (audit or resolvable label), or an
\* unresolvable label value with no uid.
OwnerRows ==
    {ContainerRow(user_name_of(u), u, "", 0) : u \in Uids}
        \cup {ContainerRow("ghost", NoUid, "", 0)}

\* All tables with keys among K and rows among R.
Tables(K, R) == UNION {[D -> R] : D \in SUBSET K}

InitEnforce ==
    /\ dockerContainers \in
         {[c \in D |-> [state |-> st[c], size_rw |-> sz[c], created |-> CreatedOf(c),
                        label |-> "", image |-> ""]] :
            D \in SUBSET Cids,
            st \in [Cids -> {"running", "exited"}],
            sz \in [Cids -> ContainerSizes]}
    /\ containerAttr \in Tables(Cids, OwnerRows)
    /\ layerAttr \in {EmptyTable} \cup
         {[l \in {"l1"} |-> LayerRow(user_name_of(u), u, 1024, "pull")] : u \in Uids}
    /\ quotaLimits \in [Uids -> 0..MaxLimit]
    /\ imageAttr = EmptyTable
    /\ settings = EmptyTable
    /\ layerFirst = EmptyTable
    /\ layerLater = {}
    /\ DockerQuiet
    /\ eOrder \in Orders
    /\ EnforceIdle
    /\ SyncIdle
    /\ SchedIdle
    /\ CacheIdle
    /\ MatchIdle
    /\ CollectIdle
    /\ ConcIdle
    /\ ReportIdle
    /\ ReconIdle
    /\ DaemonIdle
    /\ AuditIdle
    /\ LabelIdle

NextEnforce ==
    \/ EnforceStart
    \/ EnforceNextUid
    \/ EnforceRecompute
    \/ EnforceStop
    \/ EnforceRemove
    \/ EnforceDeleteAttribution
    \/ EnforceEmitRemoved
    \/ EnforcePost
    \/ EnforceFinish

SpecEnforce == InitEnforce /\ [][NextEnforce]_vars

\* C2: a container is stopped or removed only when the uid it is attributed
\* to has block_hard_limit > 0 and that uid's usage, as recomputed right
\* before the step, is strictly greater than block_hard_limit * 1024 bytes;
\* so a uid with limit 0 or usage <= limit never loses a container.
C2_RemovalOnlyOverLimit ==
    [][\A c \in DOMAIN dockerContainers :
          (c \notin DOMAIN dockerContainers' \/ dockerContainers'[c] # dockerContainers[c])
          => /\ c \in DOMAIN containerAttr
             /\ enforce_owner(containerAttr[c]) \in Uids
             /\ quotaLimits[enforce_owner(containerAttr[c])] > 0
             /\ CurrentUsage(enforce_owner(containerAttr[c]))
                  > quotaLimits[enforce_owner(containerAttr[c])] * 1024]_vars

\* A container has just been removed by the pass.
C2_Witness == epc = "delete" /\ eCur.cid \notin DOMAIN dockerContainers

\* C3: when the pass exits, every uid that was over its limit at the start
\* and none of whose candidates failed to stop or remove is within its limit
\* or has lost every candidate.
C3_Convergence ==
    epc \in {"done", "aborted"}
    => \A u \in eOver :
          (\A c \in eCands0[u] : c \notin DOMAIN eFailed)
          => \/ CurrentUsage(u) <= quotaLimits[u] * 1024
             \/ \A c \in eCands0[u] : c \notin DOMAIN dockerContainers

NoRemovedEvent(c) ==
    \A i \in 1..Len(eEvents) :
        ~(eEvents[i].event_type = "container_removed" /\ eEvents[i].container_id = c)

\* The loop has moved past candidate c of the current uid.
MovedPast(c) ==
    eUid \in Uids =>
        \A i \in 1..Len(eConts[eUid]) : eConts[eUid][i].cid = c => i < eIdx

C10_NoAbort == epc # "aborted"

\* The container_removed events of uid u, in batch order.
RemovedEventsOf(u) ==
    SelectSeq(eEvents, LAMBDA e : e.event_type = "container_removed" /\ e.uid = u)

\* The candidates of uid u the pass has removed from Docker, in visiting order.
RemovedCandidatesOf(u) ==
    SelectSeq(eConts[u], LAMBDA t : /\ t.cid \in DOMAIN ePre
                                     /\ ePre[t.cid] # <<>>
                                     /\ t.cid \notin DOMAIN dockerContainers)

\* C11: when a pass returns, its batch holds exactly one quota_exceeded event
\* for each uid that was over its limit and none for any other uid; every
\* container_removed event directly follows the quota_exceeded event or
\* another container_removed event of the same uid; the container_removed
\* events of a uid name the containers removed for it, one each, in removal
\* order; enforced is the number of container_removed events and events is
\* the length of the batch.
C11_BatchShape ==
    epc = "done" =>
        /\ \A u \in Uids :
              Cardinality({i \in 1..Len(eEvents) :
                              eEvents[i].event_type = "quota_exceeded" /\ eEvents[i].uid = u})
                 = IF u \in eOver THEN 1 ELSE 0
        /\ \A i \in 1..Len(eEvents) :
              /\ eEvents[i].event_type \in {"quota_exceeded", "container_removed"}
              /\ eEvents[i].event_type = "container_removed"
                    => i > 1 /\ eEvents[i - 1].uid = eEvents[i].uid
        /\ \A u \in Uids :
              /\ Len(RemovedEventsOf(u)) = Len(RemovedCandidatesOf(u))
              /\ \A k \in 1..Len(RemovedEventsOf(u)) :
                    /\ RemovedEventsOf(u)[k].container_id = RemovedCandidatesOf(u)[k].cid
                    /\ RemovedEventsOf(u)[k].size_bytes = RemovedCandidatesOf(u)[k].size
        /\ eResult[1].enforced =
              Cardinality({i \in 1..Len(eEvents) : eEvents[i].event_type = "container_removed"})
        /\ eResult[1].events = Len(eEvents)

\* A pass has returned after removing two containers of one uid.
C11_Witness ==
    /\ epc = "done"
    /\ \E u \in Uids : Len(RemovedEventsOf(u)) = 2

\* Candidate t comes no later than candidate v under the order, judged by
\* what the daemon holds for the two containers.
DockerOrdered(order, t, v) ==
    LET a == dockerContainers[t.cid]
        b == dockerContainers[v.cid]
    IN IF order = "newest_first" THEN a.created >= b.created
       ELSE IF order = "oldest_first" THEN a.created <= b.created
       ELSE a.size_rw >= b.size_rw

InitStore ==
    /\ containerAttr = EmptyTable
    /\ layerAttr = EmptyTable
    /\ imageAttr = EmptyTable
    /\ settings = EmptyTable
    /\ quotaLimits = [u \in Uids |-> 0]
    /\ layerFirst = EmptyTable
    /\ layerLater = {}
    /\ dockerContainers = EmptyTable
    /\ DockerQuiet
    /\ eOrder = "newest_first"
    /\ EnforceIdle
    /\ SyncIdle
    /\ SchedIdle
    /\ CacheIdle
    /\ MatchIdle
    /\ CollectIdle
    /\ ConcIdle
    /\ ReportIdle
    /\ ReconIdle
    /\ DaemonIdle
    /\ AuditIdle
    /\ LabelIdle

SetLayerCall ==
    \E l \in Layers, uid \in Uids, size \in LayerSizes, method \in Methods :
        set_layer_attribution(l, user_name_of(uid), uid, size, method)

DeleteLayerCall == \E l \in Layers : delete_layer_attribution(l)

NextStore == SetLayerCall \/ DeleteLayerCall

SpecStore == InitStore /\ [][NextStore]_vars

\* C1: first writer wins for layers: while a layer is not deleted, every read
\* returns the owner (uid and name), size_bytes and creation_method of the
\* first set_layer_attribution call, whatever later calls with another owner
\* were made.
C1_FirstWriterWins ==
    \A l \in DOMAIN layerFirst :
        \E r \in get_layer_attributions :
            /\ r.layer_id = l
            /\ r.first_puller_uid = layerFirst[l].first_puller_uid
            /\ r.first_puller_host_user_name = layerFirst[l].first_puller_host_user_name
            /\ r.size_bytes = layerFirst[l].size_bytes
            /\ r.creation_method = layerFirst[l].creation_method

\* A layer that received a later call with another owner and is still stored.
C1_Witness ==
    \E l \in layerLater : l \in DOMAIN layerAttr

\* ------------------------------------------------------------------------
\* Docker images, events and audit records seen by the synchroniser.
\* ------------------------------------------------------------------------

Imgs == {"sha256:i1", "sha256:i2"}

\* The name:tag by which a pull event names an image.
RefOf(i) == IF i = "sha256:i1" THEN "img1:latest" ELSE "img2:latest"

\* None as an image id.
NoImage == ""

\* RootFS.Layers of an image, oldest first.
ImageLayers(i) ==
    IF i = "sha256:i1" THEN <<"l1", "l2">>
    ELSE IF i = "sha256:i2" THEN <<"l1", "l3">>
    ELSE <<>>

\* The Size that history() reports for a layer.
LayerSizeOf(l) == IF l = "l1" THEN 2048 ELSE 1024

\* get_image_layers_with_sizes(image_id): <<layer_id, size>> pairs; the empty
\* list when inspect_image fails (no such image).
get_image_layers_with_sizes(image_id) ==
    IF dockerUp /\ image_id \in dockerImages
    THEN [k \in 1..Len(ImageLayers(image_id)) |->
            <<ImageLayers(image_id)[k], LayerSizeOf(ImageLayers(image_id)[k])>>]
    ELSE <<>>

\* get_layers_for_image(image_id): the layer ids as a set.
get_layers_for_image(image_id) ==
    {get_image_layers_with_sizes(image_id)[k][1] :
        k \in 1..Len(get_image_layers_with_sizes(image_id))}

\* Size attribute of an image: the sum of its layers.
ImageSizeOf(i) ==
    SumOver({ImageLayers(i)[k] : k \in 1..Len(ImageLayers(i))},
            [l \in Layers |-> LayerSizeOf(l)])

\* get_system_df()["images"] and the sizes of list_images().
get_system_df_images ==
    IF dockerUp THEN [i \in dockerImages |-> ImageSizeOf(i)] ELSE EmptyTable

\* _resolve_image_id(image_ref): the full id, or NoImage for None.
resolve_image_id(image_ref) ==
    IF image_ref = "" THEN NoImage
    ELSE IF image_ref \in Imgs THEN image_ref
    ELSE IF dockerUp /\ \E i \in dockerImages : RefOf(i) = image_ref
         THEN CHOOSE i \in dockerImages : RefOf(i) = image_ref
         ELSE NoImage

\* One decoded Docker event as collect_events_since returns it.
DockerEvent(type, action, id, time) ==
    [type |-> type, action |-> action, id |-> id, time |-> time]

\* The name ausearch -i prints for a uid.
InterpretedName(u) == IF getpwuid(u) # "" THEN getpwuid(u) ELSE "unknown(2)"

\* One record of _parse_ausearch_output. form "interpreted": names and a
\* wall-clock timestamp; form "raw": numeric ids and a Unix timestamp.
AuditRecord(u, form, t) ==
    IF form = "interpreted"
    THEN [auid |-> NoUid, uid |-> NoUid, euid |-> NoUid,
          auid_name |-> InterpretedName(u), uid_name |-> InterpretedName(u),
          timestamp |-> t, timestamp_unix |-> 0]
    ELSE [auid |-> u, uid |-> u, euid |-> u, auid_name |-> "", uid_name |-> "",
          timestamp |-> 0, timestamp_unix |-> t]

AuditForms == {"interpreted", "raw"}

\* Python's "a or b or c" on optional integers: 0 and None are falsy, and the
\* last operand is the value when all are.
py_or3(a, b, c) ==
    IF a \notin {NoUid, 0} THEN a ELSE IF b \notin {NoUid, 0} THEN b ELSE c

\* The uid both phases take from an audit record; NoUid when the record is
\* skipped.
audit_uid(ev) ==
    LET uid == py_or3(ev.auid, ev.uid, ev.euid)
        uid_name == IF ev.auid_name # "" THEN ev.auid_name ELSE ev.uid_name
    IN IF uid # NoUid THEN uid
       ELSE IF uid_name # "" THEN getpwnam(uid_name)
       ELSE NoUid

\* The timestamp sync_containers_from_audit takes: timestamp_unix if truthy,
\* else the parsed wall-clock timestamp; 0 stands for None.
audit_ts_phase1(ev) ==
    IF ev.timestamp_unix # 0 THEN ev.timestamp_unix ELSE ev.timestamp

\* The timestamp sync_from_docker_events takes: only the "timestamp" key.
audit_ts_phase2(ev) == ev.timestamp

RECURSIVE insert_by_ts(_, _)
\* Insert pair x = <<ts, uid>> into s after every pair with ts <= x's.
insert_by_ts(x, s) ==
    IF s = <<>> THEN <<x>>
    ELSE IF s[1][1] <= x[1] THEN <<s[1]>> \o insert_by_ts(x, Tail(s))
    ELSE <<x>> \o s

RECURSIVE audit_by_ts(_, _, _)
\* audit_by_ts: the usable <<ts, uid>> pairs of the first n records, sorted by
\* ts (stable); phase selects the timestamp rule.
audit_by_ts(log, n, phase) ==
    IF n = 0 THEN <<>>
    ELSE LET ev == log[n]
             ts == IF phase = 1 THEN audit_ts_phase1(ev) ELSE audit_ts_phase2(ev)
             rest == audit_by_ts(log, n - 1, phase)
         IN IF audit_uid(ev) = NoUid \/ ts = 0 THEN rest
            ELSE insert_by_ts(<<ts, audit_uid(ev)>>, rest)

\* TIME_WINDOW_SECONDS (120 s), in clock units of 120 s.
TIME_WINDOW_SECONDS == 1

Abs(x) == IF x < 0 THEN -x ELSE x

RECURSIVE best_match(_, _, _, _, _)
\* The best_uid loop from index i on: the uid of the first pair with the
\* smallest |at - t| within the window; NoUid when none. bd < 0 stands for inf.
best_match(pairs, t, i, bu, bd) ==
    IF i > Len(pairs) THEN bu
    ELSE LET delta == Abs(pairs[i][1] - t)
         IN IF delta <= TIME_WINDOW_SECONDS /\ (bd < 0 \/ delta < bd)
            THEN best_match(pairs, t, i + 1, pairs[i][2], delta)
            ELSE best_match(pairs, t, i + 1, bu, bd)

RECURSIVE best_match_last_tie(_, _, _, _, _)
\* Mutant: on an exact tie the later pair wins.
best_match_last_tie(pairs, t, i, bu, bd) ==
    IF i > Len(pairs) THEN bu
    ELSE LET delta == Abs(pairs[i][1] - t)
         IN IF delta <= TIME_WINDOW_SECONDS /\ (bd < 0 \/ delta <= bd)
            THEN best_match_last_tie(pairs, t, i + 1, pairs[i][2], delta)
            ELSE best_match_last_tie(pairs, t, i + 1, bu, bd)

best_uid_last_tie(pairs, t) == best_match_last_tie(pairs, t, 1, NoUid, -1)

best_uid(pairs, t) == best_match(pairs, t, 1, NoUid, -1)

\* The (uid, name) a qman.user label resolves to: a numeric label through
\* getpwuid, any other through getpwnam; on KeyError no uid and the label
\* itself as the name.
label_owner(q) ==
    LET uid == IF q = "1" THEN 1 ELSE IF q = "2" THEN 2 ELSE getpwnam(q)
    IN IF uid = NoUid \/ getpwuid(uid) = ""
       THEN [uid |-> NoUid, name |-> q]
       ELSE [uid |-> uid, name |-> getpwuid(uid)]

\* ------------------------------------------------------------------------
\* Store writes of the synchroniser. Each write is one transaction.
\* ------------------------------------------------------------------------

ImageRow(name, uid, size) ==
    [puller_host_user_name |-> name, puller_uid |-> uid, size_bytes |-> size]

\* The store as one value.
Db == [c |-> containerAttr, i |-> imageAttr, l |-> layerAttr,
       f |-> layerFirst, g |-> layerLater]

Write(op, key, name, uid, image, size, method) ==
    [op |-> op, key |-> key, name |-> name, uid |-> uid, image |-> image,
     size |-> size, method |-> method]

\* The store after one committed write.
apply_write(db, w) ==
    IF w.op = "set_container"
    THEN [db EXCEPT !.c = With(db.c, w.key,
            ContainerRow(w.name, w.uid,
                IF w.image = NoImage /\ w.key \in DOMAIN db.c
                THEN db.c[w.key].image_id ELSE w.image,
                w.size))]
    ELSE IF w.op = "set_image"
    THEN [db EXCEPT !.i = With(db.i, w.key, ImageRow(w.name, w.uid, w.size))]
    ELSE IF w.op = "set_layer"
    THEN [db EXCEPT
            !.l = layer_table_after_set(db.l, w.key, w.name, w.uid, w.size, w.method),
            !.f = IF w.key \in DOMAIN db.f THEN db.f
                  ELSE With(db.f, w.key, LayerRow(w.name, w.uid, w.size, w.method)),
            !.g = IF w.key \in DOMAIN db.f /\ db.f[w.key].first_puller_uid # w.uid
                  THEN db.g \cup {w.key} ELSE db.g]
    ELSE [db EXCEPT !.l = Without(db.l, w.key), !.f = Without(db.f, w.key),
                    !.g = db.g \ {w.key}]

RECURSIVE apply_writes(_, _)
apply_writes(db, ws) ==
    IF ws = <<>> THEN db ELSE apply_writes(apply_write(db, ws[1]), Tail(ws))

RECURSIVE layer_writes(_, _, _, _, _)
\* The set_layer_attribution calls of attribute_image_layers from pair k on.
layer_writes(pairs, k, name, uid, method) ==
    IF k > Len(pairs) THEN <<>>
    ELSE (IF pairs[k][1] \in DOMAIN layerAttr THEN <<>>
          ELSE <<Write("set_layer", pairs[k][1], name, uid, NoImage, pairs[k][2], method)>>)
         \o layer_writes(pairs, k + 1, name, uid, method)

\* attribute_image_layers(image_id, name, uid, method) as its writes.
attribute_image_layers(image_id, name, uid, method) ==
    layer_writes(get_image_layers_with_sizes(image_id), 1, name, uid, method)

\* ------------------------------------------------------------------------
\* What users do on the host between two passes.
\* ------------------------------------------------------------------------

MaxClock == 2
MaxDockerEvents == 3
MaxAudit == 1

\* The containers users create, the labels they give them, and the image
\* events they cause.
SyncCids == {"c1"}
SyncLabels == {"", "alice"}
ImageActions == {"pull", "tag"}

Quiescent == spc = "idle" /\ epc = "idle"

HostFrame == UNCHANGED <<storeVars, histVars, enforceVars, syncVars, schedVars,
                 cacheVars, matchVars, collectVars,
        concVars, reportVars, reconVars, daemonVars, auditVars, labelVars>>

Tick ==
    /\ Quiescent
    /\ clock < MaxClock
    /\ clock' = clock + 1
    /\ UNCHANGED <<dockerContainers, dockerImages, dockerEvents, auditLog>>
    /\ HostFrame

\* auditd records an execution of the docker client by user u.
AuditAppend ==
    /\ Quiescent
    /\ Len(auditLog) < MaxAudit
    /\ \E u \in Uids, form \in AuditForms :
          auditLog' = Append(auditLog, AuditRecord(u, form, clock))
    /\ UNCHANGED <<dockerContainers, dockerImages, dockerEvents, clock>>
    /\ HostFrame

Emit(type, action, id) ==
    /\ Len(dockerEvents) < MaxDockerEvents
    /\ dockerEvents' = Append(dockerEvents, DockerEvent(type, action, id, clock))

\* docker create: container ids are never reused.
DockerCreate ==
    /\ Quiescent
    /\ \E c \in SyncCids, q \in SyncLabels :
          /\ c \notin DOMAIN dockerContainers
          /\ \A k \in 1..Len(dockerEvents) : dockerEvents[k].id # c
          /\ dockerContainers' = With(dockerContainers, c,
                [state |-> "running", size_rw |-> 1024, created |-> clock,
                 label |-> q, image |-> "sha256:i1"])
          /\ Emit("container", "create", c)
    /\ UNCHANGED <<dockerImages, auditLog, clock>>
    /\ HostFrame

\* docker rm -f.
DockerDestroy ==
    /\ Quiescent
    /\ \E c \in DOMAIN dockerContainers :
          /\ dockerContainers' = Without(dockerContainers, c)
          /\ Emit("container", "destroy", c)
    /\ UNCHANGED <<dockerImages, auditLog, clock>>
    /\ HostFrame

\* docker pull / build / load; a pull of an image already present emits its
\* event too.
DockerImageAdd ==
    /\ Quiescent
    /\ \E i \in Imgs, action \in ImageActions :
          /\ i \in dockerImages => action = "pull"
          /\ dockerImages' = dockerImages \cup {i}
          /\ Emit("image", action, IF action = "pull" THEN RefOf(i) ELSE i)
    /\ UNCHANGED <<dockerContainers, auditLog, clock>>
    /\ HostFrame

\* docker rmi.
DockerImageDelete ==
    /\ Quiescent
    /\ \E i \in dockerImages :
          /\ dockerImages' = dockerImages \ {i}
          /\ Emit("image", "delete", i)
    /\ UNCHANGED <<dockerContainers, auditLog, clock>>
    /\ HostFrame

\* docker commit: the event carries the container's id.
DockerCommit ==
    /\ Quiescent
    /\ \E c \in DOMAIN dockerContainers, i \in Imgs \ dockerImages :
          /\ dockerImages' = dockerImages \cup {i}
          /\ Emit("container", "commit", c)
    /\ UNCHANGED <<dockerContainers, auditLog, clock>>
    /\ HostFrame

\* ------------------------------------------------------------------------
\* cache.py: the Redis cache of the two listings.
\* ------------------------------------------------------------------------

\* Where a call runs: inside a Flask request (application context) or inside
\* a Celery task, which no application context surrounds.
Contexts == {"flask", "worker"}

\* _DEFAULT_TTL_SECONDS (600 s), in clock units of 120 s.
DEFAULT_TTL_SECONDS == 5

\* _get_redis_client() returns a client: current_app must resolve and the
\* server must answer the ping; otherwise it returns None.
redis_client(ctx) == ctx = "flask" /\ redisUp

\* get_cached_containers / get_cached_images on an entry: <<>> for None,
\* <<payload>> for a hit.
get_cached(entry, ctx) ==
    IF ~redis_client(ctx) THEN <<>>
    ELSE IF entry = <<>> THEN <<>>
    ELSE IF clock - entry[1].timestamp < DEFAULT_TTL_SECONDS THEN <<entry[1].payload>>
    ELSE <<>>

\* set_cached_containers / set_cached_images: the entry afterwards.
set_cached(entry, payload, ctx) ==
    IF redis_client(ctx) THEN <<[timestamp |-> clock, payload |-> payload]>> ELSE entry

\* invalidate_container_cache / invalidate_image_cache: the entry afterwards.
invalidate_cache(entry, ctx) == IF redis_client(ctx) THEN <<>> ELSE entry

\* The actions on which the event loop invalidates a cache.
ContainerCacheActions == {"create", "destroy", "die", "kill", "start", "stop"}
ImageCacheActions == {"pull", "push", "tag", "untag", "delete", "remove"}

\* list_images(use_cache=False).
list_images ==
    LET ids == SelectSeq(<<"sha256:i1", "sha256:i2">>,
                         LAMBDA i : dockerUp /\ i \in dockerImages)
    IN [k \in 1..Len(ids) |-> [id |-> ids[k], size |-> ImageSizeOf(ids[k])]]

\* Mutant: a failed cache read answers with the empty list.
list_with_cache_empty_on_miss(entry, live, ctx, use_cache) ==
    LET cached == IF use_cache THEN get_cached(entry, ctx) ELSE <<>>
    IN IF cached # <<>>
       THEN [result |-> cached[1], hit |-> TRUE, entry |-> entry]
       ELSE [result |-> IF use_cache /\ ~redis_client(ctx) THEN <<>> ELSE live,
             hit |-> FALSE,
             entry |-> IF use_cache THEN set_cached(entry, live, ctx) ELSE entry]

\* list_containers / list_images over a cache entry and the daemon's answer:
\* what the call returns, whether the cache answered, and the entry
\* afterwards.
list_with_cache(entry, live, ctx, use_cache) ==
    LET cached == IF use_cache THEN get_cached(entry, ctx) ELSE <<>>
    IN IF cached # <<>>
       THEN [result |-> cached[1], hit |-> TRUE, entry |-> entry]
       ELSE [result |-> live, hit |-> FALSE,
             entry |-> IF use_cache THEN set_cached(entry, live, ctx) ELSE entry]

\* The cache step at the head of one iteration of the event loop of
\* sync_from_docker_events, which runs in a Celery task.
Phase2Invalidate(ev) ==
    IF sCacheInvalidated
    THEN UNCHANGED <<cacheContainers, cacheImages, sCacheInvalidated, sInvCalls>>
    ELSE IF ev.type = "container" /\ ev.action \in ContainerCacheActions
    THEN /\ cacheContainers' = invalidate_cache(cacheContainers, "worker")
         /\ sCacheInvalidated' = TRUE
         /\ sInvCalls' = sInvCalls \cup {"containers"}
         /\ UNCHANGED cacheImages
    ELSE IF ev.type = "image" /\ ev.action \in ImageCacheActions
    THEN /\ cacheImages' = invalidate_cache(cacheImages, "worker")
         /\ sCacheInvalidated' = TRUE
         /\ sInvCalls' = sInvCalls \cup {"images"}
         /\ UNCHANGED cacheContainers
    ELSE UNCHANGED <<cacheContainers, cacheImages, sCacheInvalidated, sInvCalls>>

\* ------------------------------------------------------------------------
\* run_sync_docker_attribution: the three phases in sequence.
\* ------------------------------------------------------------------------

SETTING_LAST_EVENTS_TS == "docker_events_last_ts"

\* 24 * 3600 seconds in clock units of 120 s.
DayUnits == 720

\* max_events of collect_events_since, scaled.
max_events == 2

\* Primary-key order of the image and layer rows.
ImageKeyOrder == <<"c1", "c2", "img1:latest", "img2:latest", "sha256:i1", "sha256:i2">>
LayerOrder == <<"l1", "l2", "l3">>

\* A query result as the local dictionary the phases keep: key -> <<row>>.
Snapshot(t) == [k \in DOMAIN t |-> <<t[k]>>]

\* list_containers(all_containers=True, use_cache=False).
list_containers ==
    LET ids == SelectSeq(CidOrder, LAMBDA c : dockerUp /\ c \in DOMAIN dockerContainers)
    IN [k \in 1..Len(ids) |->
          [id |-> ids[k], image |-> dockerContainers[ids[k]].image,
           created |-> dockerContainers[ids[k]].created,
           label |-> dockerContainers[ids[k]].label]]

\* collect_events_since(since_ts): positions in the log of the events at or
\* after since_ts, oldest first, cut at max_events.
collect_events_since(since_ts) ==
    LET idx == SelectSeq([k \in 1..Len(dockerEvents) |-> k],
                         LAMBDA k : dockerUp /\ dockerEvents[k].time >= since_ts)
    IN IF Len(idx) > max_events THEN SubSeq(idx, 1, max_events) ELSE idx

\* dict.get(key, 0) on a size table.
size_get(sizes, k) == IF k \in DOMAIN sizes THEN sizes[k] ELSE 0

\* The outcome of one loop iteration: the store writes it makes in order, the
\* local dictionaries afterwards, the count increment, and whether it raises
\* KeyError before writing.
Step(ws, attrs, imgs, inc, raises) ==
    [ws |-> ws, attrs |-> attrs, imgs |-> imgs, inc |-> inc, raises |-> raises]

NoStep == Step(<<>>, sAttrs, sImgAttrs, 0, FALSE)

\* One iteration of the container loop of sync_containers_from_audit.
phase1_step(c) ==
    LET size == size_get(sSizes, c.id)
    IN IF c.id \in DOMAIN sAttrs
       THEN IF size > 0
            THEN Step(<<Write("set_container", c.id, sAttrs[c.id][1].host_user_name,
                              sAttrs[c.id][1].uid, sAttrs[c.id][1].image_id, size, "null")>>,
                      sAttrs, sImgAttrs, 0, FALSE)
            ELSE NoStep
       ELSE IF c.label # ""
       THEN Step(<<Write("set_container", c.id, label_owner(c.label).name,
                         label_owner(c.label).uid, c.image, size, "null")>>,
                 sAttrs, sImgAttrs, 1, FALSE)
       ELSE IF c.created <= 0 THEN NoStep
       ELSE LET b == best_uid(sAudit, c.created)
            IN IF b = NoUid THEN NoStep
               ELSE Step(<<Write("set_container", c.id, user_name_of(b), b,
                                 c.image, size, "null")>>,
                         sAttrs, sImgAttrs, 1, FALSE)

\* Mutant: the image row is written but its layers are not attributed.
attribute_new_image_without_layers(eid, name, uid, method) ==
    Step(<<Write("set_image", eid, name, uid, NoImage, size_get(sImgSizes, eid), "null")>>,
         sAttrs, With(sImgAttrs, eid, <<>>), 0, FALSE)

\* set_image_attribution followed by attribute_image_layers, and the {} that
\* marks the image as handled.
attribute_new_image(eid, name, uid, method) ==
    Step(<<Write("set_image", eid, name, uid, NoImage, size_get(sImgSizes, eid), "null")>>
            \o attribute_image_layers(eid, name, uid, method),
         sAttrs, With(sImgAttrs, eid, <<>>), 0, FALSE)

\* One iteration of the event loop of sync_from_docker_events.
phase2_step(ev) ==
    LET b == best_uid(sAudit, ev.time)
        resolved == resolve_image_id(ev.id)
        iid == IF resolved # NoImage THEN resolved ELSE ev.id
    IN IF ev.type = "container" /\ ev.action = "create"
       THEN IF ev.id \in DOMAIN sAttrs
            THEN IF size_get(sSizes, ev.id) > 0
                 THEN IF sAttrs[ev.id] = <<>>
                      THEN Step(<<>>, sAttrs, sImgAttrs, 0, TRUE)
                      ELSE Step(<<Write("set_container", ev.id,
                                        sAttrs[ev.id][1].host_user_name,
                                        sAttrs[ev.id][1].uid, sAttrs[ev.id][1].image_id,
                                        size_get(sSizes, ev.id), "null")>>,
                                sAttrs, sImgAttrs, 0, FALSE)
                 ELSE NoStep
            ELSE IF b = NoUid THEN NoStep
            ELSE Step(<<Write("set_container", ev.id, user_name_of(b), b, NoImage,
                              size_get(sSizes, ev.id), "null")>>,
                      With(sAttrs, ev.id, <<>>), sImgAttrs, 1, FALSE)
       ELSE IF ev.type = "container" /\ ev.action = "commit"
       THEN IF ev.id \in DOMAIN sImgAttrs THEN NoStep
            ELSE IF ev.id \in DOMAIN sAttrs /\ sAttrs[ev.id] # <<>>
            THEN IF sAttrs[ev.id][1].uid # NoUid /\ sAttrs[ev.id][1].host_user_name # ""
                 THEN attribute_new_image(ev.id, sAttrs[ev.id][1].host_user_name,
                                          sAttrs[ev.id][1].uid, "commit")
                 ELSE NoStep
            ELSE IF b = NoUid THEN NoStep
            ELSE attribute_new_image(ev.id, user_name_of(b), b, "commit")
       ELSE IF ev.type = "image" /\ ev.action = "pull"
       THEN IF iid \in DOMAIN sImgAttrs
            THEN IF size_get(sImgSizes, iid) > 0
                 THEN IF sImgAttrs[iid] = <<>>
                      THEN Step(<<>>, sAttrs, sImgAttrs, 0, TRUE)
                      ELSE Step(<<Write("set_image", iid,
                                        sImgAttrs[iid][1].puller_host_user_name,
                                        sImgAttrs[iid][1].puller_uid, NoImage,
                                        size_get(sImgSizes, iid), "null")>>,
                                sAttrs, sImgAttrs, 0, FALSE)
                 ELSE NoStep
            ELSE IF b = NoUid THEN NoStep
            ELSE attribute_new_image(iid, user_name_of(b), b, "pull")
       ELSE IF ev.type = "image" /\ ev.action \in {"tag", "import", "load"}
       THEN IF iid \in DOMAIN sImgAttrs \/ b = NoUid THEN NoStep
            ELSE attribute_new_image(iid, user_name_of(b), b,
                                     IF ev.action = "tag" THEN "build" ELSE ev.action)
       ELSE NoStep

\* Mutant: the image loop of sync_existing_images attributes nothing.
phase3_step_skipped(att) == NoStep

\* One iteration of the image loop of sync_existing_images.
phase3_step(att) ==
    IF \E l \in get_layers_for_image(att.image_id) : l \notin sLayerSnap
    THEN LET lw == attribute_image_layers(att.image_id, att.puller_host_user_name,
                                          att.puller_uid, "null")
         IN Step((IF size_get(sImgSizes, att.image_id) > 0
                  THEN <<Write("set_image", att.image_id, att.puller_host_user_name,
                               att.puller_uid, NoImage,
                               size_get(sImgSizes, att.image_id), "null")>>
                  ELSE <<>>) \o lw,
                 sAttrs, sImgAttrs, IF Len(lw) > 0 THEN 1 ELSE 0, FALSE)
    ELSE NoStep

\* _reconcile_layer_attributions(layers_from_docker) as its deletes.
reconcile_layer_attributions(layers_from_docker) ==
    LET gone == SelectSeq(LayerOrder,
                    LAMBDA l : l \in DOMAIN layerAttr /\ l \notin layers_from_docker)
    IN [k \in 1..Len(gone) |-> Write("delete_layer", gone[k], "", NoUid, NoImage, 0, "null")]

\* The store after the first k writes of ws.
Commit(ws, k) ==
    LET db == apply_writes(Db, SubSeq(ws, 1, k))
    IN /\ containerAttr' = db.c
       /\ imageAttr' = db.i
       /\ layerAttr' = db.l
       /\ layerFirst' = db.f
       /\ layerLater' = db.g

\* An exception leaves the task: nothing after it runs.
SyncAbort ==
    /\ spc' = "aborted"
    /\ UNCHANGED <<sAttrs, sImgAttrs, sLayerSnap, sList, sIdx, sSizes, sImgSizes,
                   sImages, sAudit, sNow, sCount, sResult>>

\* Run one loop iteration st: its writes commit one by one and any of them
\* may raise (the store re-raises after rollback); the loop has no handler.
RunStep(st, phase) ==
    IF st.raises
    THEN /\ Commit(<<>>, 0)
         /\ SyncAbort
    ELSE \E k \in 0..Len(st.ws) :
            /\ Commit(st.ws, k)
            /\ IF k < Len(st.ws)
               THEN SyncAbort
               ELSE /\ sAttrs' = st.attrs
                    /\ sImgAttrs' = st.imgs
                    /\ sCount' = [sCount EXCEPT ![phase] = @ + st.inc]
                    /\ sIdx' = sIdx + 1
                    /\ UNCHANGED <<spc, sLayerSnap, sList, sSizes, sImgSizes,
                                   sImages, sAudit, sNow, sResult>>

SyncFrame == UNCHANGED <<quotaLimits, dockerVars, enforceVars, schedVars,
                         matchVars, collectVars,
        concVars, reportVars, reconVars, daemonVars, auditVars, labelVars>>

\* Task entry and the preamble of sync_containers_from_audit.
SyncStart ==
    /\ Quiescent
    /\ spc' = "p1"
    /\ sAttrs' = Snapshot(containerAttr)
    /\ sList' = list_containers
    /\ sSizes' = get_system_df_containers
    /\ sAudit' = audit_by_ts(auditLog, Len(auditLog), 1)
    /\ sIdx' = 1
    /\ sCount' = <<0, 0, 0>>
    /\ sResult' = <<>>
    /\ UNCHANGED <<sImgAttrs, sLayerSnap, sImgSizes, sImages, sNow, sDispatched>>
    /\ UNCHANGED <<storeVars, histVars>>
    /\ lcCaller' = "sync"
    /\ lcHit' = FALSE
    /\ lcResult' = list_containers
    /\ lcLive' = list_containers
    /\ lcUsable' = FALSE
    /\ UNCHANGED <<redisUp, cacheContainers, cacheImages, sCacheInvalidated, sInvCalls>>
    /\ SyncFrame

Phase1Container ==
    /\ spc = "p1"
    /\ sIdx <= Len(sList)
    /\ RunStep(phase1_step(sList[sIdx]), 1)
    /\ UNCHANGED <<settings, sDispatched>>
    /\ UNCHANGED cacheVars
    /\ SyncFrame

\* The preamble of sync_from_docker_events: now_ts is taken first, then the
\* watermark is read and the events and the tables are loaded.
Phase2Begin ==
    /\ spc = "p1"
    /\ sIdx > Len(sList)
    /\ spc' = "p2"
    /\ sNow' = clock
    /\ sList' = collect_events_since(
                    IF SETTING_LAST_EVENTS_TS \in DOMAIN settings
                    THEN settings[SETTING_LAST_EVENTS_TS]
                    ELSE clock - DayUnits)
    /\ sSizes' = get_system_df_containers
    /\ sImgSizes' = get_system_df_images
    /\ sAudit' = audit_by_ts(auditLog, Len(auditLog), 2)
    /\ sAttrs' = Snapshot(containerAttr)
    /\ sImgAttrs' = Snapshot(imageAttr)
    /\ sIdx' = 1
    /\ UNCHANGED <<sLayerSnap, sImages, sCount, sResult, sDispatched>>
    /\ UNCHANGED <<storeVars, histVars>>
    /\ sCacheInvalidated' = FALSE
    /\ sInvCalls' = {}
    /\ UNCHANGED <<redisUp, cacheContainers, cacheImages, lcCaller, lcHit, lcResult,
                   lcLive, lcUsable>>
    /\ SyncFrame

Phase2Event ==
    /\ spc = "p2"
    /\ sIdx <= Len(sList)
    /\ RunStep(phase2_step(dockerEvents[sList[sIdx]]), 2)
    /\ sDispatched' = sDispatched \cup {sList[sIdx]}
    /\ UNCHANGED settings
    /\ Phase2Invalidate(dockerEvents[sList[sIdx]])
    /\ UNCHANGED <<redisUp, lcCaller, lcHit, lcResult,
                   lcLive, lcUsable>>
    /\ SyncFrame

\* The watermark write that ends sync_from_docker_events, then the preamble
\* of sync_existing_images.
Phase3Begin ==
    /\ spc = "p2"
    /\ sIdx > Len(sList)
    /\ \/ /\ settings' = With(settings, SETTING_LAST_EVENTS_TS, sNow)
          /\ spc' = "p3"
          /\ sList' = LET keys == SelectSeq(ImageKeyOrder, LAMBDA i : i \in DOMAIN imageAttr)
                      IN [k \in 1..Len(keys) |->
                            [image_id |-> keys[k],
                             puller_host_user_name |-> imageAttr[keys[k]].puller_host_user_name,
                             puller_uid |-> imageAttr[keys[k]].puller_uid]]
          /\ sLayerSnap' = DOMAIN layerAttr
          /\ sImages' = {list_images[k].id : k \in 1..Len(list_images)}
          /\ sImgSizes' = get_system_df_images
          /\ sIdx' = 1
          /\ UNCHANGED <<sAttrs, sImgAttrs, sSizes, sAudit, sNow, sCount, sResult>>
          /\ lcCaller' = "sync"
          /\ lcHit' = FALSE
          /\ lcResult' = list_images
          /\ lcLive' = list_images
          /\ lcUsable' = FALSE
       \/ /\ UNCHANGED settings
          /\ SyncAbort
          /\ UNCHANGED <<lcCaller, lcHit, lcResult,
                   lcLive, lcUsable>>
    /\ UNCHANGED <<containerAttr, layerAttr, quotaLimits, imageAttr, histVars, sDispatched>>
    /\ UNCHANGED <<redisUp, cacheContainers, cacheImages, sCacheInvalidated, sInvCalls>>
    /\ UNCHANGED <<dockerVars, enforceVars, schedVars, matchVars, collectVars,
        concVars, reportVars, reconVars, daemonVars, auditVars, labelVars>>

Phase3Image ==
    /\ spc = "p3"
    /\ sIdx <= Len(sList)
    /\ RunStep(phase3_step(sList[sIdx]), 3)
    /\ UNCHANGED <<settings, sDispatched>>
    /\ UNCHANGED cacheVars
    /\ SyncFrame

\* The reconciliation that ends sync_existing_images, and the return of the
\* summary.
Phase3Reconcile ==
    /\ spc = "p3"
    /\ sIdx > Len(sList)
    /\ LET ws == reconcile_layer_attributions(
                    UNION {get_layers_for_image(i) : i \in sImages})
       IN \E k \in 0..Len(ws) :
            /\ Commit(ws, k)
            /\ IF k < Len(ws)
               THEN SyncAbort
               ELSE /\ spc' = "done"
                    /\ sResult' = <<[from_audit |-> sCount[1], from_events |-> sCount[2],
                                     existing_images |-> sCount[3]]>>
                    /\ UNCHANGED <<sAttrs, sImgAttrs, sLayerSnap, sList, sIdx, sSizes,
                                   sImgSizes, sImages, sAudit, sNow, sCount>>
    /\ UNCHANGED <<settings, sDispatched>>
    /\ UNCHANGED cacheVars
    /\ SyncFrame

\* The worker is free again.
SyncFinish ==
    /\ spc \in {"done", "aborted"}
    /\ spc' = "idle"
    /\ sAttrs' = EmptyTable
    /\ sImgAttrs' = EmptyTable
    /\ sLayerSnap' = {}
    /\ sList' = <<>>
    /\ sIdx' = 0
    /\ sSizes' = EmptyTable
    /\ sImgSizes' = EmptyTable
    /\ sImages' = {}
    /\ sAudit' = <<>>
    /\ sNow' = 0
    /\ sCount' = <<0, 0, 0>>
    /\ sResult' = <<>>
    /\ UNCHANGED <<sDispatched, storeVars, histVars>>
    /\ sCacheInvalidated' = FALSE
    /\ sInvCalls' = {}
    /\ lcCaller' = "none"
    /\ lcHit' = FALSE
    /\ lcResult' = <<>>
    /\ lcLive' = <<>>
    /\ lcUsable' = FALSE
    /\ UNCHANGED <<redisUp, cacheContainers, cacheImages>>
    /\ SyncFrame

InitSync ==
    /\ containerAttr = EmptyTable
    /\ layerAttr = EmptyTable
    /\ imageAttr = EmptyTable
    /\ settings = EmptyTable
    /\ quotaLimits = [u \in Uids |-> 0]
    /\ layerFirst = EmptyTable
    /\ layerLater = {}
    /\ dockerContainers = EmptyTable
    /\ DockerQuiet
    /\ eOrder = "newest_first"
    /\ EnforceIdle
    /\ SyncIdle
    /\ SchedIdle
    /\ CacheIdle
    /\ MatchIdle
    /\ CollectIdle
    /\ ConcIdle
    /\ ReportIdle
    /\ ReconIdle
    /\ DaemonIdle
    /\ AuditIdle
    /\ LabelIdle

NextSync ==
    \/ Tick
    \/ AuditAppend
    \/ DockerCreate
    \/ DockerDestroy
    \/ DockerImageAdd
    \/ DockerImageDelete
    \/ DockerCommit
    \/ SyncStart
    \/ Phase1Container
    \/ Phase2Begin
    \/ Phase2Event
    \/ Phase3Begin
    \/ Phase3Image
    \/ Phase3Reconcile
    \/ SyncFinish

SpecSync == InitSync /\ [][NextSync]_vars

\* C6: whenever a pass writes the watermark, every event in the daemon's log
\* whose time is at or before the new watermark has been dispatched by some
\* Phase 2 loop: advancing it never skips an event the bounded collector did
\* not return.
C6_WatermarkCoversDispatched ==
    [][settings' # settings =>
          \A k \in 1..Len(dockerEvents) :
              dockerEvents[k].time <= settings'[SETTING_LAST_EVENTS_TS]
                  => k \in sDispatched']_vars

\* The keys Docker's live enumeration yields.
LiveLayers == UNION {get_layers_for_image(i) : i \in dockerImages}

\* C7: when a pass has returned, no container, image or layer attribution
\* row has a key that Docker's live enumeration lacks.
C7_NoStaleRowsAfterPass ==
    spc = "done" =>
        /\ DOMAIN containerAttr \subseteq DOMAIN dockerContainers
        /\ DOMAIN imageAttr \subseteq dockerImages
        /\ DOMAIN layerAttr \subseteq LiveLayers

\* C8: a phase that fails is caught: the pass never ends by an exception
\* leaving the task.
C8_PhaseFailureCaught == spc # "aborted"


\* The event the Phase 2 loop is at.
CurEvent == dockerEvents[sList[sIdx]]

\* The loop has handled CurEvent and moved on: no exception left the task.
EventHandled == spc = "p2" /\ sIdx <= Len(sList) /\ spc' = "p2" /\ sIdx' = sIdx + 1

\* A record the list of sync_from_docker_events accepts: a uid and a
\* wall-clock timestamp.
UsableInPhase2(r) == audit_uid(r) # NoUid /\ audit_ts_phase2(r) # 0

\* Record k is a usable record within the window of time t and no usable
\* record is closer to t.
ClosestRecord(k, t) ==
    /\ UsableInPhase2(auditLog[k])
    /\ Abs(audit_ts_phase2(auditLog[k]) - t) <= TIME_WINDOW_SECONDS
    /\ \A j \in 1..Len(auditLog) :
          UsableInPhase2(auditLog[j])
          => Abs(audit_ts_phase2(auditLog[j]) - t) >= Abs(audit_ts_phase2(auditLog[k]) - t)

C14_CommitAttributesNewImage ==
    [][(/\ EventHandled
        /\ CurEvent.type = "container" /\ CurEvent.action = "commit"
        /\ CurEvent.id \in DOMAIN containerAttr
        /\ containerAttr[CurEvent.id].uid # NoUid
        /\ dockerImages \ DOMAIN imageAttr # {})
       => \E i \in dockerImages \ DOMAIN imageAttr :
             /\ i \in DOMAIN imageAttr'
             /\ imageAttr'[i].puller_uid = containerAttr[CurEvent.id].uid
             /\ \A l \in get_layers_for_image(i) :
                   l \notin DOMAIN layerAttr
                   => /\ l \in DOMAIN layerAttr'
                      /\ layerAttr'[l].first_puller_uid = containerAttr[CurEvent.id].uid
                      /\ layerAttr'[l].creation_method = "commit"]_vars


\* C16: no ImageAttribution row is keyed by a raw name:tag: the store is only
\* accessed with the full image id the reference resolves to, and not at all
\* when the reference does not resolve.
C16_NoRawReferenceKeys ==
    \A i \in Imgs : RefOf(i) \notin DOMAIN imageAttr

\* ------------------------------------------------------------------------
\* Celery beat and the worker pool: how task instances are started.
\* ------------------------------------------------------------------------

MaxQueue == 2

Tasks == {"enforce_docker_quota", "sync_docker_attribution"}

SchedFrame == UNCHANGED <<histVars, dockerContainers, dockerImages, dockerEvents,
                          auditLog, enforceVars, syncVars,
                          cacheVars, matchVars, collectVars,
        concVars, reportVars, reconVars, daemonVars, auditVars, labelVars>>

\* beat_schedule: beat sends a task message to qman.docker each time the
\* task's interval elapses, whatever the state of earlier instances.
BeatSend ==
    /\ Len(queue) < MaxQueue
    /\ \E t \in Tasks : queue' = Append(queue, t)
    /\ UNCHANGED <<wTask, wNow, storeVars, clock>>
    /\ SchedFrame

\* A free pool process takes the oldest message and enters the task body;
\* neither task takes a lock or looks for a running instance.
WorkerTake ==
    /\ queue # <<>>
    /\ \E w \in Workers :
          /\ wTask[w] = "idle"
          /\ wTask' = [wTask EXCEPT ![w] = Head(queue)]
    /\ queue' = Tail(queue)
    /\ UNCHANGED <<wNow, storeVars, clock>>
    /\ SchedFrame

\* now_ts = time.time() at the top of sync_from_docker_events.
SyncTakeNow ==
    /\ \E w \in Workers :
          /\ wTask[w] = "sync_docker_attribution"
          /\ wNow[w] = 0
          /\ wNow' = [wNow EXCEPT ![w] = clock]
    /\ UNCHANGED <<queue, wTask, storeVars, clock>>
    /\ SchedFrame

\* _set_setting(SETTING_LAST_EVENTS_TS, str(now_ts)), after which the
\* instance runs to its end.
SyncSetWatermark ==
    /\ \E w \in Workers :
          /\ wTask[w] = "sync_docker_attribution"
          /\ wNow[w] # 0
          /\ settings' = With(settings, SETTING_LAST_EVENTS_TS, wNow[w])
          /\ wTask' = [wTask EXCEPT ![w] = "idle"]
          /\ wNow' = [wNow EXCEPT ![w] = 0]
    /\ UNCHANGED <<queue, containerAttr, layerAttr, quotaLimits, imageAttr, clock>>
    /\ SchedFrame

\* An enforcement instance runs to its end.
EnforceReturn ==
    /\ \E w \in Workers :
          /\ wTask[w] = "enforce_docker_quota"
          /\ wTask' = [wTask EXCEPT ![w] = "idle"]
    /\ UNCHANGED <<queue, wNow, storeVars, clock>>
    /\ SchedFrame

\* Time passes while instances run.
SchedTick ==
    /\ clock < MaxClock
    /\ clock' = clock + 1
    /\ UNCHANGED <<queue, wTask, wNow, storeVars>>
    /\ SchedFrame

InitSched == InitSync

NextSched ==
    \/ BeatSend
    \/ WorkerTake
    \/ SyncTakeNow
    \/ SyncSetWatermark
    \/ EnforceReturn
    \/ SchedTick

SpecSched == InitSched /\ [][NextSched]_vars

\* C4: two instances of the same task never run at the same time on one
\* worker.
C4_NoOverlap ==
    \A w1 \in Workers, w2 \in Workers :
        (w1 # w2 /\ wTask[w1] # "idle") => wTask[w1] # wTask[w2]

\* C5: the stored watermark docker_events_last_ts never decreases.
C5_WatermarkNeverDecreases ==
    [][(SETTING_LAST_EVENTS_TS \in DOMAIN settings
            /\ SETTING_LAST_EVENTS_TS \in DOMAIN settings')
          => settings'[SETTING_LAST_EVENTS_TS] >= settings[SETTING_LAST_EVENTS_TS]]_vars


\* ------------------------------------------------------------------------
\* sync_containers_from_audit on one unattributed, unlabelled container:
\* the audit list and the matching loop, over bounded audit records.
\* ------------------------------------------------------------------------

MatchMaxAudit == 3
MatchMaxTime == 4

\* The records parse_audit_logs may return.
MatchRecords ==
    {AuditRecord(u, form, t) : u \in Uids, form \in AuditForms, t \in 1..MatchMaxTime}

InitMatch ==
    /\ containerAttr = EmptyTable
    /\ layerAttr = EmptyTable
    /\ imageAttr = EmptyTable
    /\ settings = EmptyTable
    /\ quotaLimits = [u \in Uids |-> 0]
    /\ layerFirst = EmptyTable
    /\ layerLater = {}
    /\ mCreated \in 0..MatchMaxTime
    /\ dockerContainers = [c \in {"c1"} |->
          [state |-> "running", size_rw |-> 1024, created |-> mCreated,
           label |-> "", image |-> "sha256:i1"]]
    /\ DockerQuiet
    /\ eOrder = "newest_first"
    /\ EnforceIdle
    /\ SyncIdle
    /\ SchedIdle
    /\ CacheIdle
    /\ CollectIdle
    /\ ConcIdle
    /\ ReportIdle
    /\ ReconIdle
    /\ DaemonIdle
    /\ AuditIdle
    /\ LabelIdle
    /\ mpc = "idle"
    /\ mEvents \in UNION {[1..n -> MatchRecords] : n \in 0..MatchMaxAudit}
    /\ mPairs = <<>>
    /\ mCounts = [set_count |-> 0, no_created_ts |-> 0, no_audit_match |-> 0]

MatchFrame == UNCHANGED <<layerAttr, quotaLimits, imageAttr, settings, histVars, dockerVars,
                          enforceVars, syncVars, schedVars, cacheVars, collectVars,
        concVars, reportVars, reconVars, daemonVars, auditVars, labelVars>>

\* Lines 153-188: audit_by_ts built from the parsed records and sorted.
MatchBuild ==
    /\ mpc = "idle"
    /\ mpc' = "loop"
    /\ mPairs' = audit_by_ts(mEvents, Len(mEvents), 1)
    /\ UNCHANGED <<mEvents, mCreated, mCounts, containerAttr>>
    /\ MatchFrame

\* Lines 245-282: one iteration of the container loop for a container that
\* is not attributed and carries no qman.user label.
MatchContainer ==
    /\ mpc = "loop"
    /\ mpc' = "done"
    /\ LET c == list_containers[1]
           b == best_uid(mPairs, c.created)
       IN IF c.created <= 0
          THEN /\ mCounts' = [mCounts EXCEPT !.no_created_ts = @ + 1]
               /\ UNCHANGED containerAttr
          ELSE IF b # NoUid
          THEN /\ containerAttr' =
                    apply_write(Db, Write("set_container", c.id, user_name_of(b), b, c.image,
                                          size_get(get_system_df_containers, c.id), "null")).c
               /\ mCounts' = [mCounts EXCEPT !.set_count = @ + 1]
          ELSE /\ mCounts' = [mCounts EXCEPT !.no_audit_match = @ + 1]
               /\ UNCHANGED containerAttr
    /\ UNCHANGED <<mEvents, mCreated, mPairs>>
    /\ MatchFrame

NextMatch == MatchBuild \/ MatchContainer

SpecMatch == InitMatch /\ [][NextMatch]_vars

\* A record with a uid and a timestamp sync_containers_from_audit can use.
UsableInPhase1(r) == audit_uid(r) # NoUid /\ audit_ts_phase1(r) # 0

MatchDelta(k) == Abs(audit_ts_phase1(mEvents[k]) - mCreated)

\* The usable records within 120 s of the container's creation time.
InWindow == {k \in 1..Len(mEvents) :
                UsableInPhase1(mEvents[k]) /\ MatchDelta(k) <= TIME_WINDOW_SECONDS}

\* Record k comes before record j in the time-sorted scan: earlier timestamp,
\* or the same timestamp and earlier in the audit output.
ScannedBefore(k, j) ==
    \/ audit_ts_phase1(mEvents[k]) < audit_ts_phase1(mEvents[j])
    \/ audit_ts_phase1(mEvents[k]) = audit_ts_phase1(mEvents[j]) /\ k < j

CacheMaxClock == 7

CacheFrame == UNCHANGED <<layerAttr, quotaLimits, imageAttr, settings, histVars, dockerVars,
                          enforceVars, syncVars, schedVars, matchVars, collectVars,
        concVars, reportVars, reconVars, daemonVars, auditVars, labelVars>>

CacheTick ==
    /\ Quiescent
    /\ clock < CacheMaxClock
    /\ clock' = clock + 1
    /\ UNCHANGED <<dockerContainers, dockerImages, dockerEvents, auditLog>>
    /\ HostFrame

\* The Redis server goes away or comes back.
RedisFlip ==
    /\ redisUp' = ~redisUp
    /\ UNCHANGED <<cacheContainers, cacheImages, sCacheInvalidated, sInvCalls,
                   lcCaller, lcHit, lcResult, lcLive, lcUsable>>
    /\ UNCHANGED containerAttr
    /\ CacheFrame

\* Whether a call in context ctx finds a fresh entry it can read.
entry_usable(entry, ctx, use_cache) ==
    /\ use_cache
    /\ redis_client(ctx)
    /\ entry # <<>>
    /\ clock - entry[1].timestamp < DEFAULT_TTL_SECONDS

\* A call of list_containers(all_containers=True, use_cache) from a request
\* handler (get_devices, collect_remote_quotas_for_uid, set_user_quota: the
\* default use_cache=True) or from a task.
ListContainersCall ==
    /\ \E ctx \in Contexts, use_cache \in BOOLEAN :
          LET r == list_with_cache(cacheContainers, list_containers, ctx, use_cache)
          IN /\ cacheContainers' = r.entry
             /\ lcCaller' = "call"
             /\ lcHit' = r.hit
             /\ lcResult' = r.result
             /\ lcLive' = list_containers
             /\ lcUsable' = entry_usable(cacheContainers, ctx, use_cache)
    /\ UNCHANGED <<redisUp, cacheImages, sCacheInvalidated, sInvCalls, containerAttr>>
    /\ CacheFrame

\* A call of list_images(use_cache).
ListImagesCall ==
    /\ \E ctx \in Contexts, use_cache \in BOOLEAN :
          LET r == list_with_cache(cacheImages, list_images, ctx, use_cache)
          IN /\ cacheImages' = r.entry
             /\ lcCaller' = "call"
             /\ lcHit' = r.hit
             /\ lcResult' = r.result
             /\ lcLive' = list_images
             /\ lcUsable' = entry_usable(cacheImages, ctx, use_cache)
    /\ UNCHANGED <<redisUp, cacheContainers, sCacheInvalidated, sInvCalls, containerAttr>>
    /\ CacheFrame

\* _reconcile_attributions(container_ids, ...): the rows of the containers
\* in the listing.
reconcile_attributions(listing) ==
    LET ids == {listing[k].id : k \in 1..Len(listing)}
    IN [c \in DOMAIN containerAttr \cap ids |-> containerAttr[c]]

\* The label backfill of collect_remote_quotas over the table kept.
backfill_labels(kept, listing) ==
    LET new == {k \in 1..Len(listing) :
                   listing[k].id \notin DOMAIN kept /\ listing[k].label # ""}
        item(c) == listing[CHOOSE k \in new : listing[k].id = c]
    IN [c \in DOMAIN kept \cup {listing[k].id : k \in new} |->
          IF c \in DOMAIN kept THEN kept[c]
          ELSE ContainerRow(item(c).label, getpwnam(item(c).label), item(c).image, 0)]

\* collect_remote_quotas in a request handler: the listing, the
\* reconciliation that deletes rows, and the backfill from labels; what
\* follows only reads.
CollectRemoteQuotas ==
    /\ LET r == list_with_cache(cacheContainers, list_containers, "flask", TRUE)
       IN /\ cacheContainers' = r.entry
          /\ lcCaller' = "reconcile"
          /\ lcHit' = r.hit
          /\ lcResult' = r.result
          /\ lcLive' = list_containers
          /\ lcUsable' = entry_usable(cacheContainers, "flask", TRUE)
          /\ containerAttr' = backfill_labels(reconcile_attributions(r.result), r.result)
    /\ UNCHANGED <<redisUp, cacheImages, sCacheInvalidated, sInvCalls>>
    /\ CacheFrame

InitCache == InitSync

NextCache ==
    \/ Tick
    \/ DockerCreate
    \/ DockerDestroy
    \/ ListContainersCall
    \/ CollectRemoteQuotas
    \/ SyncStart
    \/ Phase1Container
    \/ Phase2Begin
    \/ Phase2Event
    \/ Phase3Begin
    \/ Phase3Reconcile
    \/ SyncFinish

SpecCache == InitCache /\ [][NextCache]_vars

\* The listing functions alone, over a daemon whose containers and images
\* come and go, a Redis server that comes and goes, and time that passes
\* beyond the TTL.
ListFrame == UNCHANGED <<storeVars, histVars, enforceVars, syncVars, schedVars,
                         matchVars, collectVars,
        concVars, reportVars, reconVars, daemonVars, auditVars, labelVars>>

HostContainers ==
    /\ dockerContainers' \in
          {EmptyTable,
           [c \in {"c1"} |-> [state |-> "running", size_rw |-> 1024, created |-> 1,
                              label |-> "", image |-> "sha256:i1"]]}
    /\ UNCHANGED <<dockerImages, dockerEvents, auditLog, clock>>
    /\ UNCHANGED cacheVars
    /\ ListFrame

HostImages ==
    /\ dockerImages' \in SUBSET {"sha256:i1"}
    /\ UNCHANGED <<dockerContainers, dockerEvents, auditLog, clock>>
    /\ UNCHANGED cacheVars
    /\ ListFrame

InitList == InitSync

NextList ==
    \/ CacheTick
    \/ RedisFlip
    \/ HostContainers
    \/ HostImages
    \/ ListContainersCall
    \/ ListImagesCall

SpecList == InitList /\ [][NextList]_vars

\* C17: once a sync pass has processed the destroy event of a container, a
\* cached list_containers call in a request handler does not get an entry
\* that still lists the container: it misses and reads the daemon.
C17_DestroyInvalidatesCache ==
    \A k \in sDispatched :
        (dockerEvents[k].type = "container" /\ dockerEvents[k].action = "destroy")
        => LET h == get_cached(cacheContainers, "flask")
           IN h = <<>> \/ \A n \in 1..Len(h[1]) : h[1][n].id # dockerEvents[k].id

\* C18: the listing the synchroniser takes, and the listing a reconciliation
\* that deletes attribution rows works from, come from the daemon, never
\* from the cache.
C18_BackgroundListingsLive ==
    lcCaller \in {"sync", "reconcile"} => ~lcHit /\ lcResult = lcLive

\* C19: a listing call that finds no fresh entry it can read (entry missing,
\* older than the TTL, backend unavailable, or cache bypassed) is not
\* answered from the cache, and every call that is not answered from the
\* cache returns the daemon's listing.
C19_CacheDegradesToLive ==
    lcCaller # "none" =>
        /\ ~lcUsable => ~lcHit
        /\ ~lcHit => lcResult = lcLive

\* With the backend unavailable and a stale entry stored, a cached call has
\* returned the daemon's listing, which differs from the entry.
C19_Witness ==
    /\ lcCaller = "call"
    /\ ~redisUp
    /\ ~lcHit
    /\ cacheContainers # <<>>
    /\ lcResult = list_containers
    /\ lcResult # cacheContainers[1].payload

\* ------------------------------------------------------------------------
\* collect_events_since: the caller, its consumer thread and the stream.
\* Time is counted in units of 5 s.
\* ------------------------------------------------------------------------
CollectMaxSeconds == 3
CollectMaxEvents == 3
CollectMaxStream == 4
JOIN_TIMEOUT == 1

CollectFrame == UNCHANGED <<storeVars, histVars, dockerVars, enforceVars, syncVars,
                            schedVars, cacheVars, matchVars,
                            concVars, reportVars, reconVars, daemonVars, auditVars, labelVars>>

\* The arguments of the call and what the daemon has to deliver.
InitCollect ==
    /\ containerAttr = EmptyTable
    /\ layerAttr = EmptyTable
    /\ imageAttr = EmptyTable
    /\ settings = EmptyTable
    /\ quotaLimits = [u \in Uids |-> 0]
    /\ layerFirst = EmptyTable
    /\ layerLater = {}
    /\ dockerContainers = EmptyTable
    /\ DockerQuiet
    /\ eOrder = "newest_first"
    /\ EnforceIdle
    /\ SyncIdle
    /\ SchedIdle
    /\ CacheIdle
    /\ MatchIdle
    /\ ConcIdle
    /\ ReportIdle
    /\ ReconIdle
    /\ DaemonIdle
    /\ AuditIdle
    /\ LabelIdle
    /\ kMaxSeconds \in 1..CollectMaxSeconds
    /\ kMaxEvents \in 1..CollectMaxEvents
    /\ kPending \in 0..CollectMaxStream
    /\ kpc = "idle"
    /\ kThread = "none"
    /\ kDone = FALSE
    /\ kElapsed = 0
    /\ kWaited = 0
    /\ kClosed = FALSE
    /\ kOut = <<>>
    /\ kReturned = <<>>

\* docker.from_env() and the thread start; an exception in the setup
\* returns [] at once.
CollectCall ==
    /\ kpc = "idle"
    /\ \/ /\ kpc' = "wait"
          /\ kThread' = "running"
          /\ UNCHANGED kReturned
       \/ /\ kpc' = "returned"
          /\ kReturned' = << <<>> >>
          /\ UNCHANGED kThread
    /\ UNCHANGED <<kMaxSeconds, kMaxEvents, kDone, kElapsed, kWaited, kPending, kClosed, kOut>>
    /\ CollectFrame

\* consume(): the stream yields one event; the loop body breaks or appends.
ConsumeEvent ==
    /\ kThread = "running"
    /\ kPending > 0
    /\ kPending' = kPending - 1
    /\ IF kDone \/ Len(kOut) >= kMaxEvents
       THEN /\ kThread' = "exited"
            /\ kClosed' = TRUE
            /\ UNCHANGED kOut
       ELSE /\ kOut' = Append(kOut, kPending)
            /\ UNCHANGED <<kThread, kClosed>>
    /\ UNCHANGED <<kMaxSeconds, kMaxEvents, kpc, kDone, kElapsed, kWaited, kReturned>>
    /\ CollectFrame

\* consume(): the stream ends or raises; the finally clause closes the client.
StreamEnd ==
    /\ kThread = "running"
    /\ kPending = 0
    /\ kThread' = "exited"
    /\ kClosed' = TRUE
    /\ UNCHANGED <<kMaxSeconds, kMaxEvents, kpc, kDone, kElapsed, kWaited, kPending, kOut,
                   kReturned>>
    /\ CollectFrame

\* Time passes while the caller is blocked in done.wait(timeout=max_seconds).
WaitTick ==
    /\ kpc = "wait"
    /\ ~kDone
    /\ kElapsed < kMaxSeconds
    /\ kElapsed' = kElapsed + 1
    /\ UNCHANGED <<kMaxSeconds, kMaxEvents, kpc, kThread, kDone, kWaited, kPending, kClosed,
                   kOut, kReturned>>
    /\ CollectFrame

\* done.wait returns (timeout, or done set: nobody sets it before); done.set().
WaitOver ==
    /\ kpc = "wait"
    /\ kDone \/ kElapsed = kMaxSeconds
    /\ kDone' = TRUE
    /\ kpc' = "join"
    /\ UNCHANGED <<kMaxSeconds, kMaxEvents, kThread, kElapsed, kWaited, kPending, kClosed,
                   kOut, kReturned>>
    /\ CollectFrame

\* Time passes while the caller is blocked in t.join(timeout=5.0).
JoinTick ==
    /\ kpc = "join"
    /\ kThread = "running"
    /\ kWaited < JOIN_TIMEOUT
    /\ kWaited' = kWaited + 1
    /\ kElapsed' = kElapsed + 1
    /\ UNCHANGED <<kMaxSeconds, kMaxEvents, kpc, kThread, kDone, kPending, kClosed, kOut,
                   kReturned>>
    /\ CollectFrame

\* t.join returns (thread finished, or timeout); return out.
CollectReturn ==
    /\ kpc = "join"
    /\ kThread = "exited" \/ kWaited = JOIN_TIMEOUT
    /\ kpc' = "returned"
    /\ kReturned' = <<kOut>>
    /\ UNCHANGED <<kMaxSeconds, kMaxEvents, kThread, kDone, kElapsed, kWaited, kPending,
                   kClosed, kOut>>
    /\ CollectFrame

NextCollect ==
    \/ CollectCall
    \/ ConsumeEvent
    \/ StreamEnd
    \/ WaitTick
    \/ WaitOver
    \/ JoinTick
    \/ CollectReturn

SpecCollect == InitCollect /\ [][NextCollect]_vars

\* The list handed back never holds more than max_events events.
ReturnedWithinMaxEvents ==
    /\ Len(kOut) <= kMaxEvents
    /\ kReturned # <<>> => Len(kReturned[1]) <= kMaxEvents

\* C20: collect_events_since returns once max_seconds have elapsed, or
\* max_events events are collected, or the stream has ended: the caller does
\* not stay blocked in its wait for another unit of time after one of these
\* holds; and the list never holds more than max_events events.
C20_ReturnsOnAnyCondition ==
    [][/\ (/\ kpc = "wait"
           /\ \/ kElapsed >= kMaxSeconds
              \/ Len(kOut) >= kMaxEvents
              \/ kThread = "exited")
          => kElapsed' = kElapsed
       /\ ReturnedWithinMaxEvents']_vars

\* C21: when collect_events_since has returned from a started collection,
\* the consumer thread has exited, the client behind the stream is closed
\* and the returned list is all that was ever collected.
C21_ReleasedOnReturn ==
    (kpc = "returned" /\ kThread # "none")
    => /\ kThread = "exited"
       /\ kClosed
       /\ kReturned = <<kOut>>

\* ------------------------------------------------------------------------
\* Concurrent upserts on the store: two processes (worker, request handler)
\* run set_layer_attribution, set_container_attribution and
\* set_volume_attribution, each a SELECT followed by a commit in its own
\* session.  The table is the list of rows the database holds.
\* ------------------------------------------------------------------------
XNames == {"alice", "bob"}
\* size_bytes of a call; only the volume calls vary it.
XSizes(fn) == IF fn = "set_volume_attribution" THEN {1, 2} ELSE {1}
XKeyOf(fn) ==
    CASE fn = "set_layer_attribution" -> "l1"
      [] fn = "set_container_attribution" -> "c1"
      [] OTHER -> "v1"
XTableOf(fn) ==
    CASE fn = "set_layer_attribution" -> "docker_layer_attribution"
      [] fn = "set_container_attribution" -> "docker_container_attribution"
      [] OTHER -> "docker_volume_attribution"
\* extra: creation_method, image_id or attribution_source.
XExtras(fn) ==
    CASE fn = "set_layer_attribution" -> {"pull"}
      [] fn = "set_container_attribution" -> {"sha256:i1"}
      [] OTHER -> {"label", "container"}
XCalls ==
    UNION {[fn : {f}, key : {XKeyOf(f)}, name : XNames, size : XSizes(f), extra : XExtras(f)] :
              f \in {"set_layer_attribution", "set_container_attribution",
                     "set_volume_attribution"}}

XRowOf(call) ==
    [table |-> XTableOf(call.fn), key |-> call.key, name |-> call.name,
     uid |-> getpwnam(call.name), size |-> call.size, extra |-> call.extra]
XIndex(rows, table, key) ==
    {i \in 1..Len(rows) : rows[i].table = table /\ rows[i].key = key}

\* Mutant: a table without its primary key.
db_insert_unchecked(rows, row) == [ok |-> TRUE, rows |-> Append(rows, row)]

\* db.add(...); db.commit(): the primary key makes the INSERT of a second
\* row with the key fail (IntegrityError), and the session is rolled back.
db_insert(rows, row) ==
    IF XIndex(rows, row.table, row.key) # {}
    THEN [ok |-> FALSE, rows |-> rows]
    ELSE [ok |-> TRUE, rows |-> Append(rows, row)]

\* Mutant: the branch for an existing row writes owner and source whatever
\* the source of the call.
volume_row_update_any_source(row, call) ==
    [row EXCEPT !.name = call.name, !.uid = getpwnam(call.name),
                !.extra = call.extra, !.size = call.size]

\* set_volume_attribution, the branch "if row".
volume_row_update(row, call) ==
    IF call.extra = "label"
    THEN [row EXCEPT !.name = call.name, !.uid = getpwnam(call.name),
                     !.extra = "label", !.size = call.size]
    ELSE [row EXCEPT !.size = call.size]

\* set_container_attribution, the branch "if row" (image_id is never None here).
container_row_update(row, call) ==
    [row EXCEPT !.name = call.name, !.uid = getpwnam(call.name),
                !.extra = call.extra, !.size = call.size]

\* db.commit() of the loaded row's changes: UPDATE ... WHERE primary key.
db_update(rows, call) ==
    [i \in 1..Len(rows) |->
        IF rows[i].table = XTableOf(call.fn) /\ rows[i].key = call.key
        THEN IF call.fn = "set_volume_attribution"
             THEN volume_row_update(rows[i], call)
             ELSE container_row_update(rows[i], call)
        ELSE rows[i]]

ConcFrame == UNCHANGED <<storeVars, histVars, dockerVars, enforceVars, syncVars,
                         schedVars, cacheVars, matchVars, collectVars,
                         reportVars, reconVars, daemonVars, auditVars, labelVars>>

\* The first half of a call: db.query(...).first().
XQuery(w) ==
    /\ xpc[w] # "queried"
    /\ \E call \in XCalls :
          /\ xCall' = [xCall EXCEPT ![w] = <<call>>]
          /\ xSaw' = [xSaw EXCEPT ![w] = XIndex(xTable, XTableOf(call.fn), call.key) # {}]
    /\ xpc' = [xpc EXCEPT ![w] = "queried"]
    /\ UNCHANGED xTable
    /\ ConcFrame

\* The second half: the branch on the row found, the commit, and the
\* except clause (rollback, raise).
XCommit(w) ==
    /\ xpc[w] = "queried"
    /\ LET call == xCall[w][1]
       IN IF xSaw[w]
          THEN /\ xTable' = IF call.fn = "set_layer_attribution" THEN xTable
                            ELSE db_update(xTable, call)
               /\ xpc' = [xpc EXCEPT ![w] = "returned"]
          ELSE LET r == db_insert(xTable, XRowOf(call))
               IN /\ xTable' = r.rows
                  /\ xpc' = [xpc EXCEPT ![w] = IF r.ok THEN "returned" ELSE "raised"]
    /\ UNCHANGED <<xCall, xSaw>>
    /\ ConcFrame

InitConc == InitSync

NextConc == \E w \in XWriters : XQuery(w) \/ XCommit(w)

SpecConc == InitConc /\ [][NextConc]_vars

\* C22: a set_layer_attribution call that loses the race for a layer id
\* returns normally: no writer's call on the layer table ends with an
\* exception.
C22_ConflictSwallowed ==
    \A w \in XWriters :
        xpc[w] = "raised" => xCall[w][1].fn # "set_layer_attribution"

\* The volume row of the table, if any.
XVolumeRows(rows) == XIndex(rows, "docker_volume_attribution", "v1")

\* C24: a label-sourced set_volume_attribution that finds a
\* container-sourced row makes the row's owner and source the label's; a
\* container-sourced call that finds a label-sourced row leaves owner and
\* source alone and changes size_bytes only.
C24_LabelPrecedence ==
    [][\A w \in XWriters :
          (/\ xpc[w] = "queried"
           /\ xpc'[w] = "returned"
           /\ xSaw[w]
           /\ xCall[w][1].fn = "set_volume_attribution")
          => \A i \in XVolumeRows(xTable) :
                LET call == xCall[w][1]
                    old == xTable[i]
                    new == xTable'[i]
                IN /\ (old.extra = "container" /\ call.extra = "label")
                      => /\ new.name = call.name
                         /\ new.uid = getpwnam(call.name)
                         /\ new.extra = "label"
                   /\ (old.extra = "label" /\ call.extra = "container")
                      => /\ new.name = old.name
                         /\ new.uid = old.uid
                         /\ new.extra = "label"
                         /\ new.size = call.size]_vars

\* A container-sourced call for another owner and another size has returned
\* and the row is still the label's, with the new size.
C24_Witness ==
    \E w \in XWriters : \E i \in XVolumeRows(xTable) :
        /\ xpc[w] = "returned"
        /\ xSaw[w]
        /\ xCall[w][1].fn = "set_volume_attribution"
        /\ xCall[w][1].extra = "container"
        /\ xTable[i].extra = "label"
        /\ xTable[i].name # xCall[w][1].name
        /\ xTable[i].size = xCall[w][1].size

ReconMaxCalls == 3

\* Mutant: the rows are deleted but not counted.
removed_count_zero(ws) == 0

\* removed_count: one per delete issued.
removed_count(ws) == Len(ws)

\* One call with layers_from_docker = S.  A delete that raises leaves the
\* function without a return value, the earlier deletes committed.
ReconcileLayersCall ==
    /\ (IF rcRet = <<>> THEN 0 ELSE rcRet[1].n) < ReconMaxCalls
    /\ \E S \in SUBSET Layers :
          LET ws == reconcile_layer_attributions(S)
          IN \E k \in 0..Len(ws) :
                /\ Commit(ws, k)
                /\ rcLive' = S
                /\ rcBefore' = layerAttr
                /\ rcRet' = IF k < Len(ws) THEN <<>>
                            ELSE <<[n |-> (IF rcRet = <<>> THEN 0 ELSE rcRet[1].n) + 1,
                                    removed |-> removed_count(ws)]>>
    /\ UNCHANGED <<quotaLimits, settings, dockerVars, enforceVars, syncVars, schedVars,
                   cacheVars, matchVars, collectVars, concVars, reportVars, daemonVars,
                   auditVars, labelVars>>

\* The pulls that fill the table between the calls.
ReconSetLayerCall ==
    \E l \in Layers, uid \in Uids :
        set_layer_attribution(l, user_name_of(uid), uid, 1024, "pull")

InitRecon == InitStore

NextRecon == ReconSetLayerCall \/ ReconcileLayersCall

SpecRecon == InitRecon /\ [][NextRecon]_vars

\* C25: a call of _reconcile_layer_attributions(S) that returns deletes
\* exactly the rows whose layer_id is not in S, returns their number and
\* leaves the rows with id in S as they were; called again with the same S
\* on the table it left, it deletes nothing and returns 0.
C25_ReconcileExactAndIdempotent ==
    [][(rcRet' # <<>> /\ rcRet' # rcRet)
       => /\ DOMAIN layerAttr' = DOMAIN layerAttr \cap rcLive'
          /\ \A l \in DOMAIN layerAttr' : layerAttr'[l] = layerAttr[l]
          /\ rcRet'[1].removed = Cardinality(DOMAIN layerAttr \ rcLive')
          /\ (/\ rcRet # <<>>
              /\ rcLive' = rcLive
              /\ DOMAIN layerAttr = DOMAIN rcBefore \cap rcLive
              /\ \A l \in DOMAIN layerAttr : layerAttr[l] = rcBefore[l])
             => /\ layerAttr' = layerAttr
                /\ rcRet'[1].removed = 0]_vars

\* A second or later call has found a one-row table whose row is live, has
\* deleted nothing and returned 0.
C25_Witness ==
    /\ rcRet # <<>>
    /\ rcRet[1].n >= 2
    /\ rcRet[1].removed = 0
    /\ Cardinality(DOMAIN rcBefore) = 1
    /\ layerAttr = rcBefore
    /\ rcLive = DOMAIN rcBefore

\* ------------------------------------------------------------------------
\* The usage report: _aggregate_usage_by_uid and the device block of
\* collect_remote_quotas / get_devices, applied to what get_system_df, the
\* store and the configuration return.
\* ------------------------------------------------------------------------
ReportSizes == {1000000, 3000000}
ReportImageSizes == {500000}
ReportLimits == {0, 2000}
\* Python None for reserved_bytes (DOCKER_QUOTA_RESERVED_BYTES unset).
NoReserved == -1
ReportReserved == {NoReserved, 0, 2000000, 10000000}
ReportOwnerRows ==
    {ContainerRow("alice", 1, "", 0), ContainerRow("user_2", 2, "", 0),
     ContainerRow("ghost", NoUid, "", 0), ContainerRow("alice", NoUid, "", 0)}
ReportLayerRows ==
    {LayerRow("alice", 1, 500000, "pull"), LayerRow("ghost", NoUid, 500000, "pull")}

\* total_used: every container and every image of the daemon.
total_used(df) ==
    SumOver(DOMAIN df.containers, df.containers) + SumOver(DOMAIN df.images, df.images)

\* sum(usage_by_uid.values())
attributed_sum(usage) == SumOver(DOMAIN usage, usage)

\* max(0, total_used - attributed_sum)
unattributed_bytes(total, usage) ==
    IF total - attributed_sum(usage) > 0 THEN total - attributed_sum(usage) ELSE 0

\* sum(limit_1k * 1024 for limit_1k in limits.values())
sum_quotas_bytes(limits) ==
    SumOver(DOMAIN limits, [u \in DOMAIN limits |-> limits[u] * 1024])

\* total of the device: reserved_bytes when set and positive, else
\* max(sum_quotas_bytes + unattributed, 1).
device_total(unattributed, limits, reserved) ==
    IF reserved # NoReserved /\ reserved > 0 THEN reserved
    ELSE IF sum_quotas_bytes(limits) + unattributed > 1
         THEN sum_quotas_bytes(limits) + unattributed ELSE 1

\* Mutant: free without the floor at 0.
device_free_unclamped(total, attributed, unattributed) == total - attributed - unattributed

\* free = max(0, total - attributed - unattributed)
device_free(total, attributed, unattributed) ==
    IF total - attributed - unattributed > 0 THEN total - attributed - unattributed ELSE 0

\* Mutant: the percentage cut after the first decimal.
percent_truncated(part, total) ==
    ((part * 100) \div total) * 10 + ((((part * 100) % total) * 10) \div total)

\* round((total - free) / total * 100.0, 1), in tenths of a percent: the
\* digits by long division, the last one rounded to nearest (ties to even).
percent_rounded(part, total) ==
    LET down == percent_truncated(part, total)
        rest == (((part * 100) % total) * 10) % total
    IN IF 2 * rest > total \/ (2 * rest = total /\ down % 2 = 1) THEN down + 1 ELSE down

\* The "usage" entry of the device and unattributed_usage.
docker_device(usage, unattributed, limits, reserved) ==
    LET total == device_total(unattributed, limits, reserved)
        free == device_free(total, attributed_sum(usage), unattributed)
    IN [total |-> total, used |-> attributed_sum(usage), free |-> free,
        percent |-> percent_rounded(total - free, total)]

ReportFrame == UNCHANGED <<storeVars, histVars, dockerVars, enforceVars, syncVars,
                           schedVars, cacheVars, matchVars, collectVars,
                           concVars, reconVars, daemonVars, auditVars, labelVars>>

\* What the report reads: get_system_df(), the two attribution tables, the
\* limits above 0 and reserved_bytes.
InitReport ==
    /\ containerAttr = EmptyTable
    /\ layerAttr = EmptyTable
    /\ imageAttr = EmptyTable
    /\ settings = EmptyTable
    /\ quotaLimits = [u \in Uids |-> 0]
    /\ layerFirst = EmptyTable
    /\ layerLater = {}
    /\ dockerContainers = EmptyTable
    /\ DockerQuiet
    /\ eOrder = "newest_first"
    /\ EnforceIdle
    /\ SyncIdle
    /\ SchedIdle
    /\ CacheIdle
    /\ MatchIdle
    /\ CollectIdle
    /\ ConcIdle
    /\ ReconIdle
    /\ DaemonIdle
    /\ AuditIdle
    /\ LabelIdle
    /\ gIn \in [df : [containers : Tables(Cids, ReportSizes),
                      images : Tables({"sha256:i1"}, ReportImageSizes)],
                attributions : Tables(Cids, ReportOwnerRows),
                layer_attributions : Tables({"l1"}, ReportLayerRows),
                limits : UNION {[D -> ReportLimits \ {0}] : D \in SUBSET Uids},
                reserved_bytes : ReportReserved]
    /\ gOut = <<>>

\* _aggregate_usage_by_uid followed by the device block.
ReportCall ==
    /\ gOut = <<>>
    /\ LET usage == aggregate_usage_by_uid(gIn.attributions, gIn.layer_attributions,
                                           gIn.df.containers)
           total == total_used(gIn.df)
           unattributed == unattributed_bytes(total, usage)
       IN gOut' = <<[usage_by_uid |-> usage, total_used |-> total,
                     unattributed |-> unattributed,
                     device |-> docker_device(usage, unattributed, gIn.limits,
                                              gIn.reserved_bytes)]>>
    /\ UNCHANGED gIn
    /\ ReportFrame

NextReport == ReportCall

SpecReport == InitReport /\ [][NextReport]_vars

\* C26: whatever the sizes, rows, limits and reserved_bytes, the report has
\* unattributed >= 0, free >= 0 and 0 <= percent <= 100 (percent is held in
\* tenths).
C26_NonNegative ==
    gOut # <<>> =>
        /\ gOut[1].unattributed >= 0
        /\ gOut[1].device.free >= 0
        /\ gOut[1].device.percent >= 0
        /\ gOut[1].device.percent <= 1000

\* Attributed usage exceeds the reserved total: free is floored at 0 and the
\* device is 100% full.
C26_Witness ==
    /\ gOut # <<>>
    /\ gIn.reserved_bytes = 2000000
    /\ gOut[1].device.used + gOut[1].unattributed > gOut[1].device.total
    /\ gOut[1].device.free = 0
    /\ gOut[1].device.percent = 1000

\* The uid the claim attributes container c to: the stored uid, else the
\* passwd entry of the stored name.
ClaimedOwner(c) ==
    IF c \notin DOMAIN gIn.attributions THEN NoUid
    ELSE IF gIn.attributions[c].uid # NoUid THEN gIn.attributions[c].uid
    ELSE getpwnam(gIn.attributions[c].host_user_name)

C28_DevicePayload ==
    gOut # <<>> =>
        LET out == gOut[1]
            dev == out.device
            used == SumOver(Uids, out.usage_by_uid)
            quotas == SumOver(DOMAIN gIn.limits,
                              [u \in DOMAIN gIn.limits |-> gIn.limits[u] * 1024])
            hundred == (dev.total - dev.free) * 100
        IN /\ IF gIn.reserved_bytes \in {2000000, 10000000}
              THEN dev.total = gIn.reserved_bytes
              ELSE dev.total = (IF quotas + out.unattributed >= 1
                                THEN quotas + out.unattributed ELSE 1)
           /\ dev.used = used
           /\ dev.free = (IF dev.total - used - out.unattributed > 0
                          THEN dev.total - used - out.unattributed ELSE 0)
           /\ \E d \in 0..10 :
                 /\ dev.percent = (hundred \div dev.total) * 10 + d
                 /\ 2 * Abs(10 * (hundred % dev.total) - d * dev.total) <= dev.total
           /\ (/\ gIn.reserved_bytes = 10000000
               /\ out.usage_by_uid = [u \in Uids |-> IF u = 1 THEN 3000000 ELSE 1000000]
               /\ out.unattributed = 500000)
              => dev = [total |-> 10000000, used |-> 4000000, free |-> 5500000,
                        percent |-> 450]

\* The worked example of the payload.
C28_Witness ==
    /\ gOut # <<>>
    /\ gIn.reserved_bytes = 10000000
    /\ gOut[1].usage_by_uid = [u \in Uids |-> IF u = 1 THEN 3000000 ELSE 1000000]
    /\ gOut[1].unattributed = 500000
    /\ gOut[1].device = [total |-> 10000000, used |-> 4000000, free |-> 5500000,
                         percent |-> 450]

\* ------------------------------------------------------------------------
\* Synchroniser passes on a host whose Docker daemon is unreachable for
\* whole passes.  Containers, images and audit records appear and nothing
\* is ever removed from the host.
\* ------------------------------------------------------------------------
\* The daemon goes away or comes back between two passes.
DaemonFlip ==
    /\ Quiescent
    /\ dockerUp' = ~dockerUp
    /\ UNCHANGED <<storeVars, histVars, dockerVars, enforceVars, syncVars, schedVars,
                   cacheVars, matchVars, collectVars, concVars, reportVars, reconVars,
                   auditVars, labelVars>>

InitOutage == InitSync

NextOutage ==
    \/ DaemonFlip
    \/ DockerCreate
    \/ DockerImageAdd
    \/ AuditAppend
    \/ SyncStart
    \/ Phase1Container
    \/ Phase2Begin
    \/ Phase2Event
    \/ Phase3Begin
    \/ Phase3Image
    \/ Phase3Reconcile
    \/ SyncFinish

SpecOutage == InitOutage /\ [][NextOutage]_vars

\* C23: while the Docker daemon is unreachable, no step of a pass changes
\* the container, image or layer attribution table.
C23_OutageLeavesTables ==
    [][(~dockerUp /\ ~dockerUp') => UNCHANGED <<containerAttr, imageAttr, layerAttr>>]_vars

\* Positions in the event log that the current Phase 2 loop has been through.
Phase2Seen == {sList[k] : k \in 1..(sIdx - 1)}

\* C30: once the Phase 2 loop of a pass has been through a
\* container-mutating event and an image-mutating event, it has called the
\* invalidation of the container cache and that of the image cache.
C30_BothCachesInvalidated ==
    (/\ spc = "p2"
     /\ \E k \in Phase2Seen : /\ dockerEvents[k].type = "container"
                              /\ dockerEvents[k].action \in ContainerCacheActions
     /\ \E k \in Phase2Seen : /\ dockerEvents[k].type = "image"
                              /\ dockerEvents[k].action \in ImageCacheActions)
    => sInvCalls = {"containers", "images"}


\* ------------------------------------------------------------------------
\* The audit lists of the two phases: _parse_ausearch_output on one record
\* of ausearch output, then the audit_by_ts loops of
\* sync_containers_from_audit and sync_from_docker_events over the same
\* parsed records.
\* ------------------------------------------------------------------------

AuditMaxRecs == 2
AuditMaxTime == 2

\* int(v) of the parser: the number for a decimal token, NoUid for ValueError.
py_int(v) == IF v = "0" THEN 0 ELSE IF v = "1" THEN 1 ELSE IF v = "2" THEN 2 ELSE NoUid

\* The text of the auid=, uid= and euid= fields of a record ("" when the
\* field is absent) and the form of its msg=audit(...) stamp.
AuidTokens == {"", "0", "1", "2", "alice", "ghost"}
UidTokens == {"", "0", "2", "alice"}
EuidTokens == {"", "2"}
StampForms == {"wall", "unix", "none"}

AuditLines ==
    {[auid |-> a, uid |-> u, euid |-> e, form |-> f, t |-> t] :
        a \in AuidTokens, u \in UidTokens, e \in EuidTokens,
        f \in StampForms, t \in 1..AuditMaxTime}

\* The event _parse_ausearch_output builds from one record: a numeric field
\* under its key, a non-numeric auid or uid under the _name key (a
\* non-numeric euid is dropped), the wall-clock stamp under "timestamp", the
\* Unix stamp under "timestamp_unix".
parse_ausearch_record(line) ==
    [auid |-> py_int(line.auid),
     uid |-> py_int(line.uid),
     euid |-> py_int(line.euid),
     auid_name |-> IF py_int(line.auid) = NoUid THEN line.auid ELSE "",
     uid_name |-> IF py_int(line.uid) = NoUid THEN line.uid ELSE "",
     timestamp |-> IF line.form = "wall" THEN line.t ELSE 0,
     timestamp_unix |-> IF line.form = "unix" THEN line.t ELSE 0]

AuditFrame == UNCHANGED <<storeVars, histVars, dockerVars, enforceVars, syncVars,
                          schedVars, cacheVars, matchVars, collectVars,
                          concVars, reportVars, reconVars, daemonVars, labelVars>>

InitAudit ==
    /\ containerAttr = EmptyTable
    /\ layerAttr = EmptyTable
    /\ imageAttr = EmptyTable
    /\ settings = EmptyTable
    /\ quotaLimits = [u \in Uids |-> 0]
    /\ layerFirst = EmptyTable
    /\ layerLater = {}
    /\ dockerContainers = EmptyTable
    /\ DockerQuiet
    /\ eOrder = "newest_first"
    /\ EnforceIdle
    /\ SyncIdle
    /\ SchedIdle
    /\ CacheIdle
    /\ MatchIdle
    /\ CollectIdle
    /\ ConcIdle
    /\ ReportIdle
    /\ ReconIdle
    /\ DaemonIdle
    /\ LabelIdle
    /\ \E n \in 1..AuditMaxRecs : \E lines \in [1..n -> AuditLines] :
          aRecs = [k \in 1..n |-> parse_ausearch_record(lines[k])]
    /\ aP1 = <<>>
    /\ aP2 = <<>>

\* sync_containers_from_audit, lines 154-197.
AuditPhase1Build ==
    /\ aP1 = <<>>
    /\ aP1' = <<audit_by_ts(aRecs, Len(aRecs), 1)>>
    /\ UNCHANGED <<aRecs, aP2>>
    /\ AuditFrame

\* sync_from_docker_events, lines 325-350.
AuditPhase2Build ==
    /\ aP2 = <<>>
    /\ aP2' = <<audit_by_ts(aRecs, Len(aRecs), 2)>>
    /\ UNCHANGED <<aRecs, aP1>>
    /\ AuditFrame

NextAudit == AuditPhase1Build \/ AuditPhase2Build

SpecAudit == InitAudit /\ [][NextAudit]_vars

\* C31: over the same audit records the two phases build the same
\* time-sorted list of (timestamp, uid) pairs, for records stamped in
\* wall-clock form and for records stamped in Unix-seconds form.
C31_SameAuditList ==
    (aP1 # <<>> /\ aP2 # <<>>) => aP1 = aP2


\* The record names who initiated the action: a numeric auid, or an auid
\* name that getpwnam resolves.
HasInitiator(r) == r.auid # NoUid \/ (r.auid_name # "" /\ getpwnam(r.auid_name) # NoUid)

InitiatorUid(r) == IF r.auid # NoUid THEN r.auid ELSE getpwnam(r.auid_name)

\* The pair <<ts, uid>> is in the list.
HasPair(list, ts, uid) == \E j \in 1..Len(list) : list[j] = <<ts, uid>>

\* C32: a record that names its initiator and has a timestamp the phase
\* reads enters the phase's list with the initiator's uid, whatever its uid
\* and euid fields are.
C32_InitiatorPreferred ==
    \A k \in 1..Len(aRecs) :
        HasInitiator(aRecs[k]) =>
            /\ (aP1 # <<>> /\ audit_ts_phase1(aRecs[k]) # 0) =>
                  HasPair(aP1[1], audit_ts_phase1(aRecs[k]), InitiatorUid(aRecs[k]))
            /\ (aP2 # <<>> /\ audit_ts_phase2(aRecs[k]) # 0) =>
                  HasPair(aP2[1], audit_ts_phase2(aRecs[k]), InitiatorUid(aRecs[k]))


\* ------------------------------------------------------------------------
\* The synchroniser pass beside what runs at the same time: the Docker
\* daemon serves other clients while the worker is in a pass, and the web
\* application answers GET /remote-api/quotas in its own process.
\* ------------------------------------------------------------------------

RaceLabels == {"", "alice", "ghost"}

\* docker create at any moment, also in the middle of a pass.
RaceCreate ==
    /\ \E c \in SyncCids, q \in RaceLabels :
          /\ c \notin DOMAIN dockerContainers
          /\ \A k \in 1..Len(dockerEvents) : dockerEvents[k].id # c
          /\ dockerContainers' = With(dockerContainers, c,
                [state |-> "running", size_rw |-> 1024, created |-> clock,
                 label |-> q, image |-> "sha256:i1"])
          /\ Emit("container", "create", c)
    /\ UNCHANGED <<dockerImages, auditLog, clock>>
    /\ HostFrame

\* docker rm -f at any moment.
RaceDestroy ==
    /\ \E c \in DOMAIN dockerContainers :
          /\ dockerContainers' = Without(dockerContainers, c)
          /\ Emit("container", "destroy", c)
    /\ UNCHANGED <<dockerImages, auditLog, clock>>
    /\ HostFrame

InitRace == InitSync

NextRace ==
    \/ Tick
    \/ AuditAppend
    \/ RaceCreate
    \/ RaceDestroy
    \/ CollectRemoteQuotas
    \/ SyncStart
    \/ Phase1Container
    \/ Phase2Begin
    \/ Phase2Event
    \/ Phase3Begin
    \/ Phase3Reconcile
    \/ SyncFinish

SpecRace == InitRace /\ [][NextRace]_vars

\* The owner fields of a stored container row.
OwnerOf(row) == [uid |-> row.uid, name |-> row.host_user_name]

\* The step is a completed Phase 1 iteration over the listed container c.
Phase1Iterates(c) ==
    /\ spc = "p1"
    /\ sIdx <= Len(sList)
    /\ sList[sIdx] = c
    /\ sIdx' = sIdx + 1

\* C33: when Phase 1 of a pass comes to a container that has a row and
\* carries a qman.user label naming another owner than the row's, the pass
\* sets the row's owner to the label's owner.
C33_LabelOverridesAudit ==
    [][\A k \in 1..Len(sList) :
          (/\ spc = "p1"
           /\ Phase1Iterates(sList[k])
           /\ sList[k].label # ""
           /\ sList[k].id \in DOMAIN sAttrs
           /\ sList[k].id \in DOMAIN containerAttr
           /\ OwnerOf(containerAttr[sList[k].id]) # label_owner(sList[k].label))
          => /\ sList[k].id \in DOMAIN containerAttr'
             /\ OwnerOf(containerAttr'[sList[k].id]) = label_owner(sList[k].label)]_vars


\* The step is a completed size refresh of container c, already attributed
\* in the phase's snapshot: a Phase 1 iteration over c, or the Phase 2
\* iteration over a container/create event of c.
RefreshOf(c) ==
    /\ spc \in {"p1", "p2"}
    /\ sIdx <= Len(sList)
    /\ sIdx' = sIdx + 1
    /\ IF spc = "p1" THEN sList[sIdx].id = c
       ELSE /\ dockerEvents[sList[sIdx]].type = "container"
            /\ dockerEvents[sList[sIdx]].action = "create"
            /\ dockerEvents[sList[sIdx]].id = c
    /\ c \in DOMAIN sAttrs
    /\ sAttrs[c] # <<>>
    /\ size_get(sSizes, c) > 0

\* C34: a refresh of an already-attributed container changes only size_bytes
\* of the row stored at the time of the write, and creates no row when the
\* row has been deleted since the phase read its snapshot.
C34_RefreshOnlySize ==
    [][\A c \in SyncCids :
          RefreshOf(c) =>
              IF c \in DOMAIN containerAttr
              THEN /\ c \in DOMAIN containerAttr'
                   /\ containerAttr'[c] =
                         [containerAttr[c] EXCEPT !.size_bytes = size_get(sSizes, c)]
              ELSE c \notin DOMAIN containerAttr']_vars


\* ------------------------------------------------------------------------
\* The order of the steps of one removal (SpecEnforce).
\* ------------------------------------------------------------------------

\* The step appends a container_removed event for container c.
EmitsRemoved(c) ==
    /\ Len(eEvents') = Len(eEvents) + 1
    /\ eEvents'[Len(eEvents')].event_type = "container_removed"
    /\ eEvents'[Len(eEvents')].container_id = c

\* Candidate j of the uid in hand is finished: a call on it failed, or it is
\* gone from Docker, its row is deleted and its event is in the batch.
CandidateFinished(j) ==
    LET c == eConts[eUid][j].cid
    IN \/ c \in DOMAIN eFailed
       \/ /\ c \notin DOMAIN dockerContainers
          /\ c \notin DOMAIN containerAttr
          /\ \E n \in 1..Len(eRemoved) : eRemoved[n] = c
          /\ \E n \in 1..Len(eEvents) : /\ eEvents[n].event_type = "container_removed"
                                        /\ eEvents[n].container_id = c

\* C35: a container leaves Docker only in the remove step, stopped; an
\* attribution row is deleted only in the step after a successful remove, for
\* the container just removed; container_removed is appended only for a
\* container that is gone and whose row is deleted; and while a candidate is
\* being stopped or removed, every earlier candidate of the uid is finished
\* and the uid's usage, as stored now, is over its limit.
C35_RemovalStepOrder ==
    [][/\ \A c \in DOMAIN dockerContainers :
             c \notin DOMAIN dockerContainers'
                => epc = "remove" /\ eCur.cid = c /\ dockerContainers[c].state = "exited"
       /\ containerAttr' # containerAttr
             => /\ epc = "delete"
                /\ eCur.cid \notin DOMAIN dockerContainers
                /\ containerAttr' = Without(containerAttr, eCur.cid)
       /\ \A c \in Cids :
             EmitsRemoved(c)
                => /\ epc = "emit" /\ eCur.cid = c
                   /\ c \notin DOMAIN dockerContainers
                   /\ c \notin DOMAIN containerAttr
       /\ epc \in {"stop", "remove", "delete", "emit"}
             => \A j \in 1..(eIdx - 1) : CandidateFinished(j)
       /\ epc = "stop" => ~within_limit(CurrentUsage(eUid), eLimits[eUid])]_vars

\* The second candidate of a uid is about to be stopped after the first one
\* was removed, its row deleted and its event appended.
C35_Witness ==
    /\ epc = "stop"
    /\ eIdx = 2
    /\ eConts[eUid][1].cid \notin DOMAIN eFailed
    /\ CandidateFinished(1)


\* ------------------------------------------------------------------------
\* Phase 3 over the images that have an attribution (SpecSync).
\* ------------------------------------------------------------------------

\* The live images that have an ImageAttribution row.
AttributedLiveImages == dockerImages \cap DOMAIN imageAttr

\* C36: when a pass returns, every layer of every live image with an
\* ImageAttribution row has a LayerAttribution row; a completed iteration of
\* the Phase 3 image loop gives each layer it adds the uid and name of the
\* image's owner and no creation_method, and leaves stored layer rows as
\* they are.
C36_Phase3CompletesLayers ==
    [][/\ (spc = "p3" /\ spc' = "done")
             => \A i \in dockerImages \cap DOMAIN imageAttr' :
                   get_layers_for_image(i) \subseteq DOMAIN layerAttr'
       /\ (spc = "p3" /\ sIdx <= Len(sList) /\ sIdx' = sIdx + 1)
             => \A l \in DOMAIN layerAttr' :
                   IF l \in DOMAIN layerAttr
                   THEN layerAttr'[l] = layerAttr[l]
                   ELSE /\ l \in get_layers_for_image(sList[sIdx].image_id)
                        /\ layerAttr'[l].first_puller_uid = sList[sIdx].puller_uid
                        /\ layerAttr'[l].first_puller_host_user_name
                              = sList[sIdx].puller_host_user_name
                        /\ layerAttr'[l].creation_method = "null"]_vars

\* The pass has returned after Phase 3 gave a layer of a live attributed
\* image its row.
C36_Witness ==
    /\ spc = "done"
    /\ sCount[3] > 0
    /\ \E i \in AttributedLiveImages : \E l \in get_layers_for_image(i) :
          /\ l \in DOMAIN layerAttr
          /\ layerAttr[l].creation_method = "null"
          /\ layerAttr[l].first_puller_uid = imageAttr[i].puller_uid


\* ------------------------------------------------------------------------
\* The reconciliation of GET /remote-api/quotas (SpecCache).
\* ------------------------------------------------------------------------

\* C37: collect_remote_quotas deletes no ContainerAttribution row of a
\* container that Docker holds at that moment.
C37_ReportKeepsLiveRows ==
    [][lcCaller' = "reconcile"
          => \A c \in DOMAIN containerAttr \cap DOMAIN dockerContainers :
                c \in DOMAIN containerAttr']_vars


\* ------------------------------------------------------------------------
\* One unattributed container with a qman.user label, as the label
\* back-fill of collect_remote_quotas and as Phase 1 of the synchroniser
\* attribute it.
\* ------------------------------------------------------------------------

\* Label values: a name with and without a passwd entry, a numeric uid with
\* and without one.
LabelValues == {"alice", "ghost", "1", "2"}

LabelFrame == UNCHANGED <<storeVars, histVars, dockerVars, enforceVars, syncVars,
                          schedVars, cacheVars, matchVars, collectVars,
                          concVars, reportVars, reconVars, daemonVars, auditVars>>

InitLabel ==
    /\ containerAttr = EmptyTable
    /\ layerAttr = EmptyTable
    /\ imageAttr = EmptyTable
    /\ settings = EmptyTable
    /\ quotaLimits = [u \in Uids |-> 0]
    /\ layerFirst = EmptyTable
    /\ layerLater = {}
    /\ dockerContainers = EmptyTable
    /\ DockerQuiet
    /\ eOrder = "newest_first"
    /\ EnforceIdle
    /\ SyncIdle
    /\ SchedIdle
    /\ CacheIdle
    /\ MatchIdle
    /\ CollectIdle
    /\ ConcIdle
    /\ ReportIdle
    /\ ReconIdle
    /\ DaemonIdle
    /\ AuditIdle
    /\ \E c \in Cids, q \in LabelValues, i \in {"", "sha256:i1"}, t \in 0..1 :
          lbIn = <<[id |-> c, image |-> i, created |-> t, label |-> q]>>
    /\ lbQuota = <<>>
    /\ lbSync = <<>>

\* quota.py 245-262: the row the back-fill stores for the container.
LabelBackfill ==
    /\ lbQuota = <<>>
    /\ lbQuota' = <<backfill_labels(EmptyTable, lbIn)[lbIn[1].id]>>
    /\ UNCHANGED <<lbIn, lbSync>>
    /\ LabelFrame

\* attribution_sync.py 229-243: the row Phase 1 stores for the container.
LabelPhase1 ==
    /\ lbSync = <<>>
    /\ lbSync' = <<apply_writes(Db, phase1_step(lbIn[1]).ws).c[lbIn[1].id]>>
    /\ UNCHANGED <<lbIn, lbQuota>>
    /\ LabelFrame

NextLabel == LabelBackfill \/ LabelPhase1

SpecLabel == InitLabel /\ [][NextLabel]_vars

\* C38: for the same unattributed labelled container the back-fill and
\* Phase 1 store the same host_user_name and uid.
C38_SameLabelOwner ==
    (lbQuota # <<>> /\ lbSync # <<>>) => OwnerOf(lbQuota[1]) = OwnerOf(lbSync[1])


\* ------------------------------------------------------------------------
\* An enforcement pass while the web application serves PUT requests that
\* set a user's docker quota.
\* ------------------------------------------------------------------------

\* set_user_quota(uid, block_hard_limit, ...): set_user_quota_limit commits
\* the new limit; what follows only reads.
SetUserQuotaCall ==
    /\ \E u \in Uids, limit \in 0..MaxLimit :
          /\ quotaLimits[u] # limit
          /\ quotaLimits' = [quotaLimits EXCEPT ![u] = limit]
    /\ UNCHANGED <<containerAttr, layerAttr, imageAttr, settings>>
    /\ UNCHANGED <<histVars, dockerVars, enforceVars, syncVars, schedVars,
                   cacheVars, matchVars, collectVars,
                   concVars, reportVars, reconVars, daemonVars, auditVars, labelVars>>

\* The configurations of SpecEnforce with the default order and no layer
\* rows.
InitPut == InitEnforce /\ eOrder = "newest_first" /\ layerAttr = EmptyTable

NextPut == NextEnforce \/ SetUserQuotaCall

SpecPut == InitPut /\ [][NextPut]_vars

\* The limit of the uid in hand has been set since the pass read the limits,
\* to 0 or to a value that covers the uid's usage.
LimitLiftedSinceRead ==
    /\ eUid \in DOMAIN eLimits
    /\ quotaLimits[eUid] # eLimits[eUid]
    /\ (quotaLimits[eUid] = 0 \/ within_limit(CurrentUsage(eUid), quotaLimits[eUid]))

\* C39: once a PUT has committed a limit of 0, or one at or above the uid's
\* usage, the running pass stops and removes no container of that uid.
C39_PutStopsRemoval ==
    [][\A c \in DOMAIN dockerContainers :
          (c \notin DOMAIN dockerContainers' \/ dockerContainers'[c] # dockerContainers[c])
             => ~(epc \in {"stop", "remove"} /\ LimitLiftedSinceRead)]_vars


\* C40: in the reported device, used <= total and used + free <= total,
\* with reserved_bytes set and with total taken from the sum of the limits.
C40_DeviceConsistent ==
    gOut # <<>> =>
        /\ gOut[1].device.used <= gOut[1].device.total
        /\ gOut[1].device.used + gOut[1].device.free <= gOut[1].device.total

====
